---- MODULE Spec2Model ----
(***************************************************************************)
(* State-machine model of the two composables of DailVue:                  *)
(*   useConference  (src/src/composables/useConference.ts, lines 299-1331) *)
(*   useSipClient   (src/src/composables/useConference.ts, lines 1470-1920)*)
(* JavaScript runs each handler to its first await without interruption;   *)
(* every async function is therefore split at its await: the action named  *)
(* after the function is the synchronous part up to the await, and the     *)
(* actions ...Resolved / ...Rejected are the continuation after the        *)
(* collaborator's promise settles.  In-flight calls are kept in a bag.     *)
(***************************************************************************)
EXTENDS Integers, FiniteSets, Sequences, Bags, TLC

(* ---------------- bounds of the model ---------------- *)
\* largest options.maxParticipants a caller passes (0 stands for "not given")
MaxOpt == 2
\* number of async calls of the conference composable in flight at once
MaxPending == 2
\* number of async calls of the SIP client composable in flight at once
MaxSipPending == 2
\* number of SipClient instances constructed in one run
MaxClients == 3
\* pool of participant object identities
MaxPartIds == 2
\* scheduled "clear conference" timeouts not yet fired
MaxClear == 1
\* number of listeners registered with onConferenceEvent at once
MaxListeners == 3
\* number of useSipClient owners set up in one run
MaxOwners == 2
\* number of EventBus instances the owners can be given
MaxBuses == 2
\* the configured maximum of concurrent call sessions
MaxSessions == 3
\* pool of call session ids
MaxSessionIds == 5
\* media streams an answer() acquires (audio, video)
MaxTracks == 2
\* the configured maximum of the DTMF queue
MaxQueue == 2
\* distinct DTMF tones a caller sends
MaxTones == 2
\* abortableSleep calls made in one run
MaxSleeps == 2
\* AbortSignals the calls can be given
MaxSignals == 1
\* longest duration (in clock ticks) a sleep is asked for
MaxMs == 1
\* ticks the clock makes in one run
MaxNow == 2

(* ---------------- program constants ---------------- *)
\* CONFERENCE_CONSTANTS.DEFAULT_MAX_PARTICIPANTS ("default: 10")
DEFAULT_MAX_PARTICIPANTS == 10

VARIABLES
  conference,          \* conference.value: the ConferenceStateInterface, or NoConf for null
  audioLevelInterval,  \* the interval id held by the composable, 0 for null
  intervals,           \* ids of the window.setInterval timers not yet cleared
  clearTimeouts,       \* number of setTimeout(() => conference.value = null) not yet fired
  confSipClient,       \* TRUE iff the sipClient ref given to useConference holds a client
  pending,             \* bag of in-flight async calls of the conference composable
  thrown,              \* the error the call handled by the last step threw, or "none"
  published,           \* the conference states the last step announced in events, in order
  emitted              \* the lock, recording and participant-update events the last step emitted

confVars == <<conference, audioLevelInterval, intervals, clearTimeouts,
              confSipClient, pending, thrown, published, emitted>>

\* useSipClient
VARIABLES
  sipClient,           \* sipClient.value: the id of the SipClient instance held, 0 for null
  clients,             \* ids of the SipClient instances constructed so far
  stopped,             \* ids of the instances on which a stop() has completed
  sipConfig,           \* TRUE iff configStore.sipConfig is set
  error,               \* error.value, "none" for null
  isDisconnecting,     \* isDisconnecting.value
  sipPending,          \* bag of in-flight calls awaited by the composable: [call, client]
  connection,          \* connectionState of each SipClient instance constructed
  registration,        \* state held by registrationStore
  listening,           \* TRUE until cleanupEventListeners() has removed the handlers
  reconnectAttempts,   \* start() calls made by reconnect() since it was last called
  sipLast              \* what the last step ran and the error it threw: [call, err]

sipVars == <<sipClient, clients, stopped, sipConfig, error, isDisconnecting, sipPending,
             connection, registration, listening, reconnectAttempts, sipLast>>

\* the call the last step of the conference composable handled: [call, pid]
VARIABLES confLast

\* the listeners of the conference composable and one emitConferenceEvent
VARIABLES
  conferenceEventListeners,  \* conferenceEventListeners.value: callbacks in push order
  delivered,                 \* the callbacks the last emitConferenceEvent called, in order
  emitThrew,                 \* TRUE iff the last emitConferenceEvent threw to its caller
  evLast                     \* what the last step did with the listeners

evVars == <<conferenceEventListeners, delivered, emitThrew, evLast>>

\* several useSipClient owners and the event buses they are given
VARIABLES
  eventBusInstanceCounts,  \* the module-level WeakMap: bus -> count, 0 for "no entry"
  owners,                  \* owner -> [bus, autoCleanup, mounted, error]
  subscriptions,           \* handlers registered on the buses: [bus, event, id, owner]
  warned,                  \* TRUE iff the last step logged the shared-bus warning
  busLast                  \* what the last step did: [call, owner]

busVars == <<eventBusInstanceCounts, owners, subscriptions, warned, busLast>>

\* the registry of live call sessions
VARIABLES
  registry,                \* ids of the sessions the registry tracks
  regLast                  \* what the last step asked of the registry: [call, id, err]

regVars == <<registry, regLast>>

\* one call session
VARIABLES
  callState,               \* state of the session, "none" before it exists
  transportCloses,         \* number of times the transport handle was asked to close
  answerStage,             \* where an answer() in flight is: idle, acquiring, confirming
  cancelRequested,         \* TRUE iff the token of the answer() in flight was cancelled
  acquired,                \* media streams acquired and not released
  dtmfQueue,               \* tones queued and not yet sent, oldest first
  callLast                 \* what the last step did: [call, outcome, tone]

callVars == <<callState, transportCloses, answerStage, cancelRequested, acquired,
              dtmfQueue, callLast>>

\* the component that owns the conference composable
VARIABLES
  unmounted,               \* TRUE once the onUnmounted hook of the composable has run
  graceFor                 \* per clearing timeout not yet fired, oldest first: the id of
                           \* the conference whose endConference scheduled it

lifeVars == <<unmounted, graceFor>>

\* abortableSleep (src/src/utils/abortController.ts)
VARIABLES
  sleeps,                  \* the promises abortableSleep returned, in call order
  abortedSignals,          \* the AbortSignals whose `aborted` is true
  now,                     \* the clock, in ticks
  sleepLast                \* what the last step did: [call, arg]

sleepVars == <<sleeps, abortedSignals, now, sleepLast>>

\* everything beside the conference composable, and beside the SIP client composable
besideLife == <<sipVars, confLast, evVars, busVars, regVars, callVars, sleepVars>>
besideConf == <<besideLife, lifeVars>>
besideSip == <<confVars, confLast, evVars, busVars, regVars, callVars, lifeVars, sleepVars>>
besideMedia == <<sipVars, evVars, busVars, regVars, callVars, lifeVars, sleepVars>>
besideEvents == <<confVars, sipVars, confLast, busVars, regVars, callVars, lifeVars, sleepVars>>
besideBus == <<confVars, sipVars, confLast, evVars, regVars, callVars, lifeVars, sleepVars>>
besideRegistry == <<confVars, sipVars, confLast, evVars, busVars, callVars, lifeVars, sleepVars>>
besideCall == <<confVars, sipVars, confLast, evVars, busVars, regVars, lifeVars, sleepVars>>
besideSleep == <<confVars, sipVars, confLast, evVars, busVars, regVars, callVars, lifeVars>>

vars == <<confVars, sipVars, confLast, evVars, busVars, regVars, callVars, lifeVars,
          sleepVars>>

(* ---------------- values ---------------- *)
ConfIds == 1..2
PartIds == 1..MaxPartIds
TimerIds == 1..2

NoParticipants == [p \in {} |-> 0]

\* conference.value = null
NoConf == [id |-> 0, state |-> "Idle", participants |-> NoParticipants,
           isLocked |-> FALSE, isRecording |-> FALSE, maxParticipants |-> 0,
           localParticipant |-> 0]

HasConf == conference.id # 0

\* computed refs, lines 314-328
state == IF HasConf THEN conference.state ELSE "Idle"
participantCount == IF HasConf THEN Cardinality(DOMAIN conference.participants) ELSE 0
isActive == state = "Active"
isLocked == HasConf /\ conference.isLocked
isRecording == HasConf /\ conference.isRecording

Op(op, pid) == [op |-> op, pid |-> pid]
InFlight == BagToSet(pending)
CanStart == BagCardinality(pending) < MaxPending
Start(o) == pending (+) SetToBag({o})
Finish(o) == pending (-) SetToBag({o})

\* `conf-${Date.now()}-${random}`: an id no live object carries
FreshConfId == CHOOSE i \in ConfIds : i # conference.id

\* identities of participant objects still referenced by the map or by a call in flight
UsedPartIds == (DOMAIN conference.participants) \cup {o.pid : o \in InFlight}
FreePartIds == PartIds \ UsedPartIds
FreshPartId == CHOOSE i \in FreePartIds : \A j \in FreePartIds : i <= j
\* the same for a conference object that replaces the current one
FreeLocalIds == PartIds \ {o.pid : o \in InFlight}
FreshLocalId == CHOOSE i \in FreeLocalIds : \A j \in FreeLocalIds : i <= j

InitSip ==
  /\ sipClient = 0
  /\ clients = {}
  /\ stopped = {}
  /\ sipConfig = FALSE
  /\ error = "none"
  /\ isDisconnecting = FALSE
  /\ sipPending = EmptyBag
  /\ connection = [c \in {} |-> "disconnected"]
  /\ registration = "unregistered"
  /\ listening = TRUE
  /\ reconnectAttempts = 0
  /\ sipLast = [call |-> "setup", err |-> "none"]

Init ==
  /\ InitSip
  /\ confLast = [call |-> "setup", pid |-> 0]
  /\ conferenceEventListeners = <<>>
  /\ delivered = <<>>
  /\ emitThrew = FALSE
  /\ evLast = "setup"
  /\ eventBusInstanceCounts = [b \in 1..MaxBuses |-> 0]
  /\ owners = [o \in {} |-> 0]
  /\ subscriptions = {}
  /\ warned = FALSE
  /\ busLast = [call |-> "setup", owner |-> 0]
  /\ registry = {}
  /\ regLast = [call |-> "setup", id |-> 0, err |-> "none"]
  /\ callState = "none"
  /\ transportCloses = 0
  /\ answerStage = "idle"
  /\ cancelRequested = FALSE
  /\ acquired = 0
  /\ dtmfQueue = <<>>
  /\ callLast = [call |-> "setup", outcome |-> "ok", tone |-> 0]
  /\ sleeps = <<>>
  /\ abortedSignals = {}
  /\ now = 0
  /\ sleepLast = [call |-> "setup", arg |-> 0]
  /\ unmounted = FALSE
  /\ graceFor = <<>>
  /\ conference = NoConf
  /\ audioLevelInterval = 0
  /\ intervals = {}
  /\ clearTimeouts = 0
  /\ confSipClient = TRUE
  /\ pending = EmptyBag
  /\ thrown = "none"
  /\ published = <<>>
  /\ emitted = <<>>

(* ---------------- internal helpers of useConference ---------------- *)

\* updateConferenceState, lines 365-383
updateConferenceState(c, newState) ==
  IF c.id = 0 THEN c ELSE [c EXCEPT !.state = newState]

\* lines 377-382: the 'state:changed' event updateConferenceState emits
stateChanged(c, newState) == IF c.id = 0 THEN <<>> ELSE <<newState>>

\* startAudioLevelMonitoring, lines 1131-1162
startAudioLevelMonitoring ==
  IF audioLevelInterval # 0
    THEN UNCHANGED <<audioLevelInterval, intervals>>
    ELSE LET t == CHOOSE i \in TimerIds : i \notin intervals IN
         /\ audioLevelInterval' = t
         /\ intervals' = intervals \cup {t}

\* stopAudioLevelMonitoring, lines 1172-1177
stopAudioLevelMonitoring ==
  IF audioLevelInterval # 0
    THEN /\ intervals' = intervals \ {audioLevelInterval}
         /\ audioLevelInterval' = 0
    ELSE UNCHANGED <<audioLevelInterval, intervals>>

\* the local participant object built by createConference, lines 447-457
LocalParticipant == [state |-> "Connected", isMuted |-> FALSE,
                     isModerator |-> TRUE, isSelf |-> TRUE]

\* the participant object built by addParticipant, lines 617-627
InvitedParticipant == [state |-> "Connecting", isMuted |-> FALSE,
                       isModerator |-> FALSE, isSelf |-> FALSE]

\* options.maxParticipants || CONFERENCE_CONSTANTS.DEFAULT_MAX_PARTICIPANTS
MaxOrDefault(n) == IF n = 0 THEN DEFAULT_MAX_PARTICIPANTS ELSE n

\* a write to a field of a participant object; it is visible only while the object
\* is still an entry of the current conference's map
SetParticipant(c, pid, field, v) ==
  IF pid \in DOMAIN c.participants
    THEN [c EXCEPT !.participants[pid][field] = v]
    ELSE c

\* conference.value.participants.delete(participantId)
DeleteParticipant(c, pid) ==
  [c EXCEPT !.participants = [q \in (DOMAIN c.participants) \ {pid} |-> c.participants[q]]]

\* a call that throws (or returns early, err = "none") before it changes anything
Fail(err) ==
  /\ thrown' = err
  /\ emitted' = <<>>
  /\ published' = <<>>
  /\ UNCHANGED <<conference, audioLevelInterval, intervals, clearTimeouts,
                 confSipClient, pending>>

(* ---------------- createConference, lines 420-491 ---------------- *)

\* line 425: the only state in which createConference refuses
createRefused == HasConf /\ isActive

createConference(maxP, locked) ==
  /\ IF ~confSipClient THEN Fail("SIP client not initialized")
     ELSE IF createRefused THEN Fail("A conference is already active")
     ELSE /\ CanStart
          /\ FreeLocalIds # {}
          /\ conference' = [id |-> FreshConfId, state |-> "Creating",
                            participants |-> (FreshLocalId :> LocalParticipant),
                            isLocked |-> locked, isRecording |-> FALSE,
                            maxParticipants |-> MaxOrDefault(maxP),
                            localParticipant |-> FreshLocalId]
          /\ pending' = Start(Op("create", 0))
          /\ thrown' = "none"
          /\ emitted' = <<>>
          /\ published' = <<>>
          /\ UNCHANGED <<audioLevelInterval, intervals, clearTimeouts,
                         confSipClient>>

\* lines 465-480, after sipClient.createConference() resolved
createResolved(o) ==
  /\ o \in InFlight /\ o.op = "create"
  /\ pending' = Finish(o)
  /\ IF ~HasConf
       THEN \* conference.value.state = ... throws; the catch finds no conference
            /\ thrown' = "TypeError"
            /\ emitted' = <<>>
            /\ published' = <<>>
            /\ UNCHANGED <<conference, audioLevelInterval, intervals>>
       ELSE /\ conference' = [conference EXCEPT !.state = "Active"]
            /\ startAudioLevelMonitoring
            /\ thrown' = "none"
            /\ emitted' = <<>>
            /\ published' = <<"Active">>
  /\ UNCHANGED <<clearTimeouts, confSipClient>>

\* lines 481-490, after sipClient.createConference() rejected
createRejected(o) ==
  /\ o \in InFlight /\ o.op = "create"
  /\ pending' = Finish(o)
  /\ conference' = updateConferenceState(conference, "Failed")
  /\ thrown' = "rejected"
  /\ emitted' = <<>>
  /\ published' = stateChanged(conference, "Failed")
  /\ UNCHANGED <<audioLevelInterval, intervals, clearTimeouts, confSipClient>>

(* ---------------- joinConference, lines 520-563 ---------------- *)

joinConference(maxP) ==
  /\ IF ~confSipClient THEN Fail("SIP client not initialized")
     ELSE /\ CanStart
          /\ conference' = [id |-> FreshConfId, state |-> "Creating",
                            participants |-> NoParticipants,
                            isLocked |-> FALSE, isRecording |-> FALSE,
                            maxParticipants |-> MaxOrDefault(maxP),
                            localParticipant |-> 0]
          /\ pending' = Start(Op("join", 0))
          /\ thrown' = "none"
          /\ emitted' = <<>>
          /\ published' = <<>>
          /\ UNCHANGED <<audioLevelInterval, intervals, clearTimeouts,
                         confSipClient>>

\* lines 546-552
joinResolved(o) ==
  /\ o \in InFlight /\ o.op = "join"
  /\ pending' = Finish(o)
  /\ IF ~HasConf
       THEN /\ thrown' = "TypeError"
            /\ emitted' = <<>>
            /\ published' = <<>>
            /\ UNCHANGED <<conference, audioLevelInterval, intervals>>
       ELSE /\ conference' = [conference EXCEPT !.state = "Active"]
            /\ startAudioLevelMonitoring
            /\ thrown' = "none"
            /\ emitted' = <<>>
            /\ published' = <<>>
  /\ UNCHANGED <<clearTimeouts, confSipClient>>

\* lines 553-562
joinRejected(o) ==
  /\ o \in InFlight /\ o.op = "join"
  /\ pending' = Finish(o)
  /\ conference' = updateConferenceState(conference, "Failed")
  /\ thrown' = "rejected"
  /\ emitted' = <<>>
  /\ published' = stateChanged(conference, "Failed")
  /\ UNCHANGED <<audioLevelInterval, intervals, clearTimeouts, confSipClient>>

(* ---------------- addParticipant, lines 596-654 ---------------- *)

\* the lock test left out
AddLockCheckMissing == FALSE

\* lines 601-603: isLocked.value
AddRefusedLocked == isLocked

\* the capacity test with > for >=
ConferenceFullOffByOne ==
  participantCount > MaxOrDefault(conference.maxParticipants)

\* the capacity test counting only the invited participants, not the local one
ConferenceFullNotCountingSelf ==
  Cardinality({p \in DOMAIN conference.participants :
                 ~conference.participants[p].isSelf})
    >= MaxOrDefault(conference.maxParticipants)

\* lines 605-610: participantCount >= maxParticipants
ConferenceFull ==
  participantCount >= MaxOrDefault(conference.maxParticipants)

\* lines 636-648, the part after the invite; needs conference.value for the event
addCompleted(c, pid) == SetParticipant(c, pid, "state", "Connected")

addParticipant ==
  IF ~HasConf THEN Fail("No active conference")
  ELSE IF AddRefusedLocked THEN Fail("Conference is locked")
  ELSE IF ConferenceFull THEN Fail("Conference is full")
  ELSE /\ FreePartIds # {}
       /\ LET pid == FreshPartId
              inserted == [conference EXCEPT
                             !.participants = @ @@ (pid :> InvitedParticipant)]
          IN IF confSipClient
               THEN /\ CanStart
                    /\ conference' = inserted
                    /\ pending' = Start(Op("add", pid))
                    /\ thrown' = "none"
                    /\ emitted' = <<>>
                    /\ published' = <<>>
               ELSE /\ conference' = addCompleted(inserted, pid)
                    /\ thrown' = "none"
                    /\ emitted' = <<>>
                    /\ published' = <<>>
                    /\ UNCHANGED pending
       /\ UNCHANGED <<audioLevelInterval, intervals, clearTimeouts, confSipClient>>

addResolved(o) ==
  /\ o \in InFlight /\ o.op = "add"
  /\ pending' = Finish(o)
  /\ conference' = addCompleted(conference, o.pid)
  /\ thrown' = IF HasConf THEN "none" ELSE "TypeError"
  /\ emitted' = <<>>
  /\ published' = <<>>
  /\ UNCHANGED <<audioLevelInterval, intervals, clearTimeouts, confSipClient>>

\* lines 649-653: the catch only logs and rethrows
addRejected(o) ==
  /\ o \in InFlight /\ o.op = "add"
  /\ pending' = Finish(o)
  /\ thrown' = "rejected"
  /\ emitted' = <<>>
  /\ published' = <<>>
  /\ UNCHANGED <<conference, audioLevelInterval, intervals, clearTimeouts,
                 confSipClient>>

(* ---------------- removeParticipant, lines 682-724 ---------------- *)

removeParticipant(pid) ==
  IF ~HasConf THEN Fail("No active conference")
  ELSE IF pid \notin DOMAIN conference.participants
    THEN Fail("not found")
  ELSE IF conference.participants[pid].isSelf
    THEN Fail("Cannot remove yourself")
  ELSE /\ LET marked == SetParticipant(conference, pid, "state", "Disconnected")
          IN IF confSipClient
               THEN /\ CanStart
                    /\ conference' = marked
                    /\ pending' = Start(Op("remove", pid))
                    /\ thrown' = "none"
                    /\ emitted' = <<>>
                    /\ published' = <<>>
               ELSE /\ conference' = DeleteParticipant(marked, pid)
                    /\ thrown' = "none"
                    /\ emitted' = <<>>
                    /\ published' = <<>>
                    /\ UNCHANGED pending
       /\ UNCHANGED <<audioLevelInterval, intervals, clearTimeouts, confSipClient>>

\* lines 706-718
removeResolved(o) ==
  /\ o \in InFlight /\ o.op = "remove"
  /\ pending' = Finish(o)
  /\ IF HasConf
       THEN /\ conference' = DeleteParticipant(conference, o.pid)
            /\ thrown' = "none"
            /\ emitted' = <<>>
            /\ published' = <<>>
       ELSE /\ thrown' = "TypeError"
            /\ emitted' = <<>>
            /\ published' = <<>>
            /\ UNCHANGED conference
  /\ UNCHANGED <<audioLevelInterval, intervals, clearTimeouts, confSipClient>>

removeRejected(o) ==
  /\ o \in InFlight /\ o.op = "remove"
  /\ pending' = Finish(o)
  /\ thrown' = "rejected"
  /\ emitted' = <<>>
  /\ published' = <<>>
  /\ UNCHANGED <<conference, audioLevelInterval, intervals, clearTimeouts,
                 confSipClient>>

(* ---------------- muteParticipant / unmuteParticipant, lines 755-862 ---------------- *)
\* (mute and recording calls touch neither the state nor the membership of the
\* conference; Next below composes the lifecycle and membership calls only)

\* shared shape of the two: target is the value isMuted gets
setMuted(opname, pid, target) ==
  IF ~HasConf THEN Fail("No active conference")
  ELSE IF pid \notin DOMAIN conference.participants THEN Fail("not found")
  ELSE IF conference.participants[pid].isMuted = target THEN Fail("none")
  ELSE /\ IF confSipClient
            THEN /\ CanStart
                 /\ pending' = Start(Op(opname, pid))
                 /\ thrown' = "none"
                 /\ emitted' = <<>>
                 /\ published' = <<>>
                 /\ UNCHANGED conference
            ELSE /\ conference' = SetParticipant(conference, pid, "isMuted", target)
                 /\ thrown' = "none"
                 /\ emitted' = <<"participant:updated">>
                 /\ published' = <<>>
                 /\ UNCHANGED pending
       /\ UNCHANGED <<audioLevelInterval, intervals, clearTimeouts, confSipClient>>

setMutedResolved(o, target) ==
  /\ pending' = Finish(o)
  /\ conference' = SetParticipant(conference, o.pid, "isMuted", target)
  /\ thrown' = IF HasConf THEN "none" ELSE "TypeError"
  /\ emitted' = IF HasConf THEN <<"participant:updated">> ELSE <<>>
  /\ published' = <<>>
  /\ UNCHANGED <<audioLevelInterval, intervals, clearTimeouts, confSipClient>>

muteParticipant(pid) == setMuted("mute", pid, TRUE)

muteResolved(o) ==
  /\ o \in InFlight /\ o.op = "mute"
  /\ setMutedResolved(o, TRUE)

unmuteParticipant(pid) == setMuted("unmute", pid, FALSE)

unmuteResolved(o) ==
  /\ o \in InFlight /\ o.op = "unmute"
  /\ setMutedResolved(o, FALSE)

\* lines 789-792 and 858-861: the catch only logs and rethrows
muteRejected(o) ==
  /\ o \in InFlight /\ o.op \in {"mute", "unmute"}
  /\ pending' = Finish(o)
  /\ thrown' = "rejected"
  /\ emitted' = <<>>
  /\ published' = <<>>
  /\ UNCHANGED <<conference, audioLevelInterval, intervals, clearTimeouts,
                 confSipClient>>

(* ---------------- endConference, lines 889-920 ---------------- *)

\* timeouts that are scheduled, or will be by an endConference in flight
ClearsAhead == clearTimeouts + CopiesIn(Op("end", 0), pending)

\* lines 904-914: stop polling, publish Ended, schedule the clear
endCompleted(c) ==
  /\ stopAudioLevelMonitoring
  /\ conference' = updateConferenceState(c, "Ended")
  /\ clearTimeouts' = clearTimeouts + 1

endConference ==
  IF ~HasConf THEN Fail("No active conference")
  ELSE /\ IF confSipClient
            THEN /\ CanStart
                 /\ ClearsAhead < MaxClear
                 /\ conference' = updateConferenceState(conference, "Ending")
                 /\ pending' = Start(Op("end", 0))
                 /\ thrown' = "none"
                 /\ emitted' = <<>>
                 /\ published' = stateChanged(conference, "Ending")
                 /\ UNCHANGED <<audioLevelInterval, intervals, clearTimeouts>>
            ELSE /\ ClearsAhead < MaxClear
                 /\ endCompleted(updateConferenceState(conference, "Ending"))
                 /\ thrown' = "none"
                 /\ emitted' = <<>>
                 /\ published' = stateChanged(conference, "Ending")
                                    \o stateChanged(conference, "Ended")
                 /\ UNCHANGED pending
       /\ UNCHANGED <<confSipClient>>

endResolved(o) ==
  /\ o \in InFlight /\ o.op = "end"
  /\ pending' = Finish(o)
  /\ endCompleted(conference)
  /\ thrown' = "none"
  /\ emitted' = <<>>
  /\ published' = stateChanged(conference, "Ended")
  /\ UNCHANGED <<confSipClient>>

\* lines 915-919: the catch only logs and rethrows
endRejected(o) ==
  /\ o \in InFlight /\ o.op = "end"
  /\ pending' = Finish(o)
  /\ thrown' = "rejected"
  /\ emitted' = <<>>
  /\ published' = <<>>
  /\ UNCHANGED <<conference, audioLevelInterval, intervals, clearTimeouts,
                 confSipClient>>

\* lines 910-912: the timeout callback
clearConference ==
  /\ clearTimeouts > 0
  /\ clearTimeouts' = clearTimeouts - 1
  /\ conference' = NoConf
  /\ thrown' = "none"
  /\ emitted' = <<>>
  /\ published' = <<>>
  /\ UNCHANGED <<audioLevelInterval, intervals, confSipClient, pending>>

(* ---------------- lock / unlock, lines 947-1003 ---------------- *)

\* lockConference without the early return of lines 952-954
lockConferenceAgain ==
  IF ~HasConf THEN Fail("No active conference")
  ELSE /\ conference' = [conference EXCEPT !.isLocked = TRUE]
       /\ thrown' = "none"
       /\ emitted' = <<"locked">>
       /\ published' = <<>>
       /\ UNCHANGED <<audioLevelInterval, intervals, clearTimeouts, confSipClient,
                      pending>>

lockConference ==
  IF ~HasConf THEN Fail("No active conference")
  ELSE IF isLocked THEN Fail("none")
  ELSE /\ conference' = [conference EXCEPT !.isLocked = TRUE]
       /\ thrown' = "none"
       /\ emitted' = <<"locked">>
       /\ published' = <<>>
       /\ UNCHANGED <<audioLevelInterval, intervals, clearTimeouts, confSipClient,
                      pending>>

unlockConference ==
  IF ~HasConf THEN Fail("No active conference")
  ELSE IF ~isLocked THEN Fail("none")
  ELSE /\ conference' = [conference EXCEPT !.isLocked = FALSE]
       /\ thrown' = "none"
       /\ emitted' = <<"unlocked">>
       /\ published' = <<>>
       /\ UNCHANGED <<audioLevelInterval, intervals, clearTimeouts, confSipClient,
                      pending>>

(* ---------------- recording, lines 1031-1115 ---------------- *)

\* lines 1049-1053 and 1106-1110: the event emitted once isRecording is assigned
recordingEvent(target) ==
  IF target THEN <<"recording:started">> ELSE <<"recording:stopped">>

setRecording(opname, target) ==
  IF ~HasConf THEN Fail("No active conference")
  ELSE IF isRecording = target THEN Fail("none")
  ELSE /\ IF confSipClient
            THEN /\ CanStart
                 /\ pending' = Start(Op(opname, 0))
                 /\ thrown' = "none"
                 /\ emitted' = <<>>
                 /\ published' = <<>>
                 /\ UNCHANGED conference
            ELSE /\ conference' = [conference EXCEPT !.isRecording = target]
                 /\ thrown' = "none"
                 /\ emitted' = recordingEvent(target)
                 /\ published' = <<>>
                 /\ UNCHANGED pending
       /\ UNCHANGED <<audioLevelInterval, intervals, clearTimeouts, confSipClient>>

setRecordingResolved(o, target) ==
  /\ pending' = Finish(o)
  /\ IF HasConf
       THEN /\ conference' = [conference EXCEPT !.isRecording = target]
            /\ thrown' = "none"
            /\ emitted' = recordingEvent(target)
            /\ published' = <<>>
       ELSE /\ thrown' = "TypeError"
            /\ emitted' = <<>>
            /\ published' = <<>>
            /\ UNCHANGED conference
  /\ UNCHANGED <<audioLevelInterval, intervals, clearTimeouts, confSipClient>>

startRecording == setRecording("startRec", TRUE)

startRecordingResolved(o) ==
  /\ o \in InFlight /\ o.op = "startRec"
  /\ setRecordingResolved(o, TRUE)

stopRecording == setRecording("stopRec", FALSE)

stopRecordingResolved(o) ==
  /\ o \in InFlight /\ o.op = "stopRec"
  /\ setRecordingResolved(o, FALSE)

\* a catch that would give up the recording when the collaborator fails
recordingRejectedResets(o) ==
  /\ o \in InFlight /\ o.op \in {"startRec", "stopRec"}
  /\ pending' = Finish(o)
  /\ conference' = IF HasConf THEN [conference EXCEPT !.isRecording = FALSE]
                              ELSE conference
  /\ thrown' = "rejected"
  /\ emitted' = <<>>
  /\ published' = <<>>
  /\ UNCHANGED <<audioLevelInterval, intervals, clearTimeouts, confSipClient>>

\* lines 1054-1057 and 1111-1114
recordingRejected(o) ==
  /\ o \in InFlight /\ o.op \in {"startRec", "stopRec"}
  /\ pending' = Finish(o)
  /\ thrown' = "rejected"
  /\ emitted' = <<>>
  /\ published' = <<>>
  /\ UNCHANGED <<conference, audioLevelInterval, intervals, clearTimeouts,
                 confSipClient>>

(* ---------------- environment ---------------- *)

\* the owner of the sipClient ref assigns it (a client, or null)
setSipClient(b) ==
  /\ b # confSipClient
  /\ confSipClient' = b
  /\ thrown' = "none"
  /\ emitted' = <<>>
  /\ published' = <<>>
  /\ UNCHANGED <<conference, audioLevelInterval, intervals, clearTimeouts, pending>>

\* conference lifecycle and membership
Next ==
  \/ (\E maxP \in 0..MaxOpt, locked \in BOOLEAN : createConference(maxP, locked))
       /\ UNCHANGED besideConf
  \/ (\E maxP \in 0..MaxOpt : joinConference(maxP)) /\ UNCHANGED besideConf
  \/ addParticipant /\ UNCHANGED besideConf
  \/ (\E pid \in PartIds : removeParticipant(pid)) /\ UNCHANGED besideConf
  \/ endConference /\ UNCHANGED besideConf
  \/ clearConference /\ UNCHANGED besideConf
  \/ lockConference /\ UNCHANGED besideConf
  \/ unlockConference /\ UNCHANGED besideConf
  \/ (\E b \in BOOLEAN : setSipClient(b)) /\ UNCHANGED besideConf
  \/ (\E o \in InFlight : createResolved(o)) /\ UNCHANGED besideConf
  \/ (\E o \in InFlight : createRejected(o)) /\ UNCHANGED besideConf
  \/ (\E o \in InFlight : joinResolved(o)) /\ UNCHANGED besideConf
  \/ (\E o \in InFlight : joinRejected(o)) /\ UNCHANGED besideConf
  \/ (\E o \in InFlight : addResolved(o)) /\ UNCHANGED besideConf
  \/ (\E o \in InFlight : addRejected(o)) /\ UNCHANGED besideConf
  \/ (\E o \in InFlight : removeResolved(o)) /\ UNCHANGED besideConf
  \/ (\E o \in InFlight : removeRejected(o)) /\ UNCHANGED besideConf
  \/ (\E o \in InFlight : endResolved(o)) /\ UNCHANGED besideConf
  \/ (\E o \in InFlight : endRejected(o)) /\ UNCHANGED besideConf

Spec == Init /\ [][Next]_vars

(* ======================= useSipClient, lines 1470-1920 ======================= *)

SipOp(call, c) == [call |-> call, client |-> c]
SipInFlight == BagToSet(sipPending)
SipCanStart == BagCardinality(sipPending) < MaxSipPending

\* what the last step ran and the error it threw to its caller ("none" for no error)
Ran(call, err) == [call |-> call, err |-> err]

\* new SipClient(config, eventBus): an instance that did not exist before
NewClient == Cardinality(clients) + 1

(* ---------------- SipClient (core/SipClient), connection state ---------------- *)
\* The connection state machine of section 4.2 of the specification:
\* Disconnected -> Connecting -> Connected -> Disconnected, and -> Failed on error.

\* start() called on instance c
clientStart(conn, c) ==
  [conn EXCEPT ![c] = IF @ = "connected" THEN @ ELSE "connecting"]

\* start() succeeded
clientStarted(conn, c) == [conn EXCEPT ![c] = "connected"]

\* start() failed: timeout or transport error
clientStartFailed(conn, c) == [conn EXCEPT ![c] = "failed"]

\* stop() completed
clientStopped(conn, c) == [conn EXCEPT ![c] = "disconnected"]

\* the transport lost the connection
clientDropped(conn, c) == [conn EXCEPT ![c] = "disconnected"]

(* ---------------- computed refs, lines 1535-1561 ---------------- *)

\* sipClient.value?.connectionState ?? 'disconnected'
connectionState == IF sipClient = 0 THEN "disconnected" ELSE connection[sipClient]
isConnected == connectionState = "connected"
isConnecting == connectionState = "connecting"
isStarted == sipClient # 0

(* ---------------- connect, lines 1668-1695 ---------------- *)

\* lines 1678-1682: connect constructs a client only when it holds none
connectCreates == sipClient = 0

\* lines 1679-1686: construct the client if there is none, then call start() on it
connectStarts ==
  /\ IF connectCreates
       THEN /\ Cardinality(clients) < MaxClients
            /\ clients' = clients \cup {NewClient}
            /\ sipClient' = NewClient
            /\ connection' = clientStart(connection @@ (NewClient :> "disconnected"),
                                         NewClient)
       ELSE /\ UNCHANGED <<sipClient, clients>>
            /\ connection' = clientStart(connection, sipClient)

\* connect, up to await sipClient.value.start()
connect ==
  IF ~sipConfig
    THEN /\ error' = "No SIP configuration set"
         /\ sipLast' = Ran("connect", "No SIP configuration set")
         /\ UNCHANGED <<sipClient, clients, stopped, sipConfig, isDisconnecting,
                        sipPending, connection, registration, listening,
                        reconnectAttempts>>
    ELSE /\ SipCanStart
         /\ connectStarts
         /\ sipPending' = sipPending (+) SetToBag({SipOp("connect", sipClient')})
         /\ error' = "none"
         /\ sipLast' = Ran("connect", "none")
         /\ UNCHANGED <<stopped, sipConfig, isDisconnecting, registration, listening,
                        reconnectAttempts>>

\* line 1688: start() resolved
connectResolved(o) ==
  /\ o \in SipInFlight /\ o.call = "connect"
  /\ sipPending' = sipPending (-) SetToBag({o})
  /\ connection' = clientStarted(connection, o.client)
  /\ sipLast' = Ran("connect.resolved", "none")
  /\ UNCHANGED <<sipClient, clients, stopped, sipConfig, error, isDisconnecting,
                 registration, listening, reconnectAttempts>>

\* lines 1689-1694: start() rejected
connectRejected(o) ==
  /\ o \in SipInFlight /\ o.call = "connect"
  /\ sipPending' = sipPending (-) SetToBag({o})
  /\ connection' = clientStartFailed(connection, o.client)
  /\ error' = "Connection failed"
  /\ sipLast' = Ran("connect.rejected", "Connection failed")
  /\ UNCHANGED <<sipClient, clients, stopped, sipConfig, isDisconnecting,
                 registration, listening, reconnectAttempts>>

(* ---------------- disconnect, lines 1700-1726 ---------------- *)

\* lines 1707-1711: up to await sipClient.value.stop(); op names the awaiting call
disconnectStarts(op) ==
  /\ error' = "none"
  /\ isDisconnecting' = TRUE
  /\ sipPending' = sipPending (+) SetToBag({SipOp(op, sipClient)})

\* lines 1713-1717 and 1723-1725: after stop() resolved
disconnectCompleted(c) ==
  /\ stopped' = stopped \cup {c}
  /\ connection' = clientStopped(connection, c)
  /\ sipClient' = 0
  /\ registration' = "unregistered"
  /\ isDisconnecting' = FALSE

\* lines 1718-1725: after stop() rejected
disconnectFailed ==
  /\ error' = "Disconnect failed"
  /\ isDisconnecting' = FALSE

\* the early return written as a throw, as register() and unregister() have it
disconnectNoClientThrows == "No SIP client to disconnect"

\* lines 1702-1705: without a client disconnect() warns and returns, no error
disconnectNoClient == "none"

disconnect ==
  IF sipClient = 0
    THEN \* early return; the finally block still runs
         /\ isDisconnecting' = FALSE
         /\ error' = IF disconnectNoClient = "none" THEN error ELSE disconnectNoClient
         /\ sipLast' = Ran("disconnect", disconnectNoClient)
         /\ UNCHANGED <<sipClient, clients, stopped, sipConfig, sipPending,
                        connection, registration, listening, reconnectAttempts>>
    ELSE /\ SipCanStart
         /\ disconnectStarts("disconnect")
         /\ sipLast' = Ran("disconnect", "none")
         /\ UNCHANGED <<sipClient, clients, stopped, sipConfig, connection,
                        registration, listening, reconnectAttempts>>

disconnectResolved(o) ==
  /\ o \in SipInFlight /\ o.call = "disconnect"
  /\ sipPending' = sipPending (-) SetToBag({o})
  /\ disconnectCompleted(o.client)
  /\ sipLast' = Ran("disconnect.resolved", "none")
  /\ UNCHANGED <<clients, sipConfig, error, listening, reconnectAttempts>>

disconnectRejected(o) ==
  /\ o \in SipInFlight /\ o.call = "disconnect"
  /\ sipPending' = sipPending (-) SetToBag({o})
  /\ disconnectFailed
  /\ sipLast' = Ran("disconnect.rejected", "Disconnect failed")
  /\ UNCHANGED <<sipClient, clients, stopped, sipConfig, connection, registration,
                 listening, reconnectAttempts>>

(* ---------------- register, lines 1731-1755 ---------------- *)

register ==
  IF sipClient = 0
    THEN \* the throw is inside the try: the catch marks the store failed
         /\ error' = "SIP client not started"
         /\ registration' = "failed"
         /\ sipLast' = Ran("register", "SIP client not started")
         /\ UNCHANGED <<sipClient, clients, stopped, sipConfig, isDisconnecting,
                        sipPending, connection, listening, reconnectAttempts>>
    ELSE /\ SipCanStart
         /\ error' = "none"
         /\ registration' = IF sipConfig THEN "registering" ELSE registration
         /\ sipPending' = sipPending (+) SetToBag({SipOp("register", sipClient)})
         /\ sipLast' = Ran("register", "none")
         /\ UNCHANGED <<sipClient, clients, stopped, sipConfig, isDisconnecting,
                        connection, listening, reconnectAttempts>>

\* line 1747
registerResolved(o) ==
  /\ o \in SipInFlight /\ o.call = "register"
  /\ sipPending' = sipPending (-) SetToBag({o})
  /\ sipLast' = Ran("register.resolved", "none")
  /\ UNCHANGED <<sipClient, clients, stopped, sipConfig, error, isDisconnecting,
                 connection, registration, listening, reconnectAttempts>>

\* lines 1748-1754
registerRejected(o) ==
  /\ o \in SipInFlight /\ o.call = "register"
  /\ sipPending' = sipPending (-) SetToBag({o})
  /\ error' = "Registration failed"
  /\ registration' = "failed"
  /\ sipLast' = Ran("register.rejected", "Registration failed")
  /\ UNCHANGED <<sipClient, clients, stopped, sipConfig, isDisconnecting,
                 connection, listening, reconnectAttempts>>

(* ---------------- reconnect, lines 1818-1842 ---------------- *)

\* lines 1819-1826: up to the await of disconnect(), or of the delay when no
\* client is held
reconnect ==
  /\ SipCanStart
  /\ reconnectAttempts' = 0
  /\ sipLast' = Ran("reconnect", "none")
  /\ IF sipClient # 0
       THEN disconnectStarts("reconnect.stop")
       ELSE /\ error' = "none"
            /\ sipPending' = sipPending (+) SetToBag({SipOp("reconnect.delay", 0)})
            /\ UNCHANGED isDisconnecting
  /\ UNCHANGED <<sipClient, clients, stopped, sipConfig, connection, registration,
                 listening>>

\* disconnect() resolved inside reconnect(); line 1830 then starts the delay
reconnectStopped(o) ==
  /\ o \in SipInFlight /\ o.call = "reconnect.stop"
  /\ sipPending' = (sipPending (-) SetToBag({o}))
                     (+) SetToBag({SipOp("reconnect.delay", 0)})
  /\ disconnectCompleted(o.client)
  /\ sipLast' = Ran("reconnect.stop.resolved", "none")
  /\ UNCHANGED <<clients, sipConfig, error, listening, reconnectAttempts>>

\* disconnect() rejected inside reconnect(): lines 1836-1841 rethrow
reconnectStopFailed(o) ==
  /\ o \in SipInFlight /\ o.call = "reconnect.stop"
  /\ sipPending' = sipPending (-) SetToBag({o})
  /\ disconnectFailed
  /\ sipLast' = Ran("reconnect.rejected", "Disconnect failed")
  /\ UNCHANGED <<sipClient, clients, stopped, sipConfig, connection, registration,
                 listening, reconnectAttempts>>

\* line 1833: the delay has elapsed and connect() runs up to its await
reconnectDelayElapsed(o) ==
  /\ o \in SipInFlight /\ o.call = "reconnect.delay"
  /\ IF ~sipConfig
       THEN /\ sipPending' = sipPending (-) SetToBag({o})
            /\ error' = "No SIP configuration set"
            /\ sipLast' = Ran("reconnect.rejected", "No SIP configuration set")
            /\ UNCHANGED <<sipClient, clients, connection, reconnectAttempts>>
       ELSE /\ connectStarts
            /\ sipPending' = (sipPending (-) SetToBag({o}))
                               (+) SetToBag({SipOp("reconnect.start", sipClient')})
            /\ error' = "none"
            /\ reconnectAttempts' = reconnectAttempts + 1
            /\ sipLast' = Ran("reconnect.delay.elapsed", "none")
  /\ UNCHANGED <<stopped, sipConfig, isDisconnecting, registration, listening>>

\* line 1835: connect() resolved inside reconnect()
reconnectConnected(o) ==
  /\ o \in SipInFlight /\ o.call = "reconnect.start"
  /\ sipPending' = sipPending (-) SetToBag({o})
  /\ connection' = clientStarted(connection, o.client)
  /\ sipLast' = Ran("reconnect.resolved", "none")
  /\ UNCHANGED <<sipClient, clients, stopped, sipConfig, error, isDisconnecting,
                 registration, listening, reconnectAttempts>>

\* lines 1836-1841: connect() rejected inside reconnect(); nothing is retried
reconnectFailed(o) ==
  /\ o \in SipInFlight /\ o.call = "reconnect.start"
  /\ sipPending' = sipPending (-) SetToBag({o})
  /\ connection' = clientStartFailed(connection, o.client)
  /\ error' = "Connection failed"
  /\ sipLast' = Ran("reconnect.rejected", "Connection failed")
  /\ UNCHANGED <<sipClient, clients, stopped, sipConfig, isDisconnecting,
                 registration, listening, reconnectAttempts>>

(* ---------------- event handlers, lines 1571-1656 ---------------- *)

\* 'sip:disconnected', lines 1583-1590: the transport of instance c dropped the
\* connection; the handler records the error the event carries, if any
onDisconnected(c, withError) ==
  /\ c \in clients /\ connection[c] = "connected"
  /\ connection' = clientDropped(connection, c)
  /\ error' = IF listening /\ withError THEN "Transport error" ELSE error
  /\ sipLast' = Ran("sip:disconnected", "none")
  /\ UNCHANGED <<sipClient, clients, stopped, sipConfig, isDisconnecting,
                 sipPending, registration, listening, reconnectAttempts>>

\* 'sip:registered', lines 1593-1602: the server accepted a registration that is
\* in flight on a connected instance
onRegistered ==
  /\ listening
  /\ \E o \in SipInFlight : o.call = "register" /\ connection[o.client] = "connected"
  /\ registration' = "registered"
  /\ sipLast' = Ran("sip:registered", "none")
  /\ UNCHANGED <<sipClient, clients, stopped, sipConfig, error, isDisconnecting,
                 sipPending, connection, listening, reconnectAttempts>>

(* ---------------- updateConfig, lines 1784-1813 ---------------- *)

\* a valid update sets the stored configuration, an invalid one sets error.value
updateConfig(valid) ==
  /\ IF valid
       THEN sipConfig' = TRUE /\ UNCHANGED error
       ELSE error' = "Invalid configuration" /\ UNCHANGED sipConfig
  /\ sipLast' = Ran("updateConfig", "none")
  /\ UNCHANGED <<sipClient, clients, stopped, isDisconnecting, sipPending,
                 connection, registration, listening, reconnectAttempts>>

(* ---------------- onUnmounted, lines 1878-1892 ---------------- *)

\* the listeners are removed first, then disconnect() is called if a client is held
unmount ==
  /\ listening
  /\ listening' = FALSE
  /\ sipLast' = Ran("unmount", "none")
  /\ IF sipClient # 0
       THEN /\ SipCanStart
            /\ disconnectStarts("disconnect")
       ELSE UNCHANGED <<error, isDisconnecting, sipPending>>
  /\ UNCHANGED <<sipClient, clients, stopped, sipConfig, connection, registration,
                 reconnectAttempts>>

NextSip ==
  \/ connect /\ UNCHANGED besideSip
  \/ disconnect /\ UNCHANGED besideSip
  \/ register /\ UNCHANGED besideSip
  \/ reconnect /\ UNCHANGED besideSip
  \/ unmount /\ UNCHANGED besideSip
  \/ onRegistered /\ UNCHANGED besideSip
  \/ (\E c \in clients, withError \in BOOLEAN : onDisconnected(c, withError))
       /\ UNCHANGED besideSip
  \/ (\E valid \in BOOLEAN : updateConfig(valid)) /\ UNCHANGED besideSip
  \/ (\E o \in SipInFlight : connectResolved(o)) /\ UNCHANGED besideSip
  \/ (\E o \in SipInFlight : connectRejected(o)) /\ UNCHANGED besideSip
  \/ (\E o \in SipInFlight : disconnectResolved(o)) /\ UNCHANGED besideSip
  \/ (\E o \in SipInFlight : disconnectRejected(o)) /\ UNCHANGED besideSip
  \/ (\E o \in SipInFlight : registerResolved(o)) /\ UNCHANGED besideSip
  \/ (\E o \in SipInFlight : registerRejected(o)) /\ UNCHANGED besideSip
  \/ (\E o \in SipInFlight : reconnectStopped(o)) /\ UNCHANGED besideSip
  \/ (\E o \in SipInFlight : reconnectStopFailed(o)) /\ UNCHANGED besideSip
  \/ (\E o \in SipInFlight : reconnectDelayElapsed(o)) /\ UNCHANGED besideSip
  \/ (\E o \in SipInFlight : reconnectConnected(o)) /\ UNCHANGED besideSip
  \/ (\E o \in SipInFlight : reconnectFailed(o)) /\ UNCHANGED besideSip

SpecSip == Init /\ [][NextSip]_vars

(* ======================= mute, lock and recording ======================= *)
\* The calls of the conference composable that change isMuted, isLocked and
\* isRecording, composed with the lifecycle calls they need: a conference to act
\* on, a remote participant, and the end of the conference while a call awaits.

\* the step handled this call of the composable (or its continuation)
Called(call, pid) == confLast' = [call |-> call, pid |-> pid]

NextMedia ==
  \/ (\E maxP \in 0..MaxOpt, locked \in BOOLEAN : createConference(maxP, locked))
       /\ Called("createConference", 0) /\ UNCHANGED besideMedia
  \/ (\E o \in InFlight : createResolved(o) /\ Called("createConference.resolved", 0))
       /\ UNCHANGED besideMedia
  \/ addParticipant /\ Called("addParticipant", 0) /\ UNCHANGED besideMedia
  \/ (\E o \in InFlight : addResolved(o) /\ Called("addParticipant.resolved", o.pid))
       /\ UNCHANGED besideMedia
  \/ (\E pid \in PartIds : muteParticipant(pid) /\ Called("muteParticipant", pid))
       /\ UNCHANGED besideMedia
  \/ (\E pid \in PartIds : unmuteParticipant(pid) /\ Called("unmuteParticipant", pid))
       /\ UNCHANGED besideMedia
  \/ (\E o \in InFlight : muteResolved(o) /\ Called("muteParticipant.resolved", o.pid))
       /\ UNCHANGED besideMedia
  \/ (\E o \in InFlight : unmuteResolved(o) /\ Called("unmuteParticipant.resolved", o.pid))
       /\ UNCHANGED besideMedia
  \/ (\E o \in InFlight : muteRejected(o) /\ Called(o.op \o ".rejected", o.pid))
       /\ UNCHANGED besideMedia
  \/ lockConference /\ Called("lockConference", 0) /\ UNCHANGED besideMedia
  \/ unlockConference /\ Called("unlockConference", 0) /\ UNCHANGED besideMedia
  \/ startRecording /\ Called("startRecording", 0) /\ UNCHANGED besideMedia
  \/ stopRecording /\ Called("stopRecording", 0) /\ UNCHANGED besideMedia
  \/ (\E o \in InFlight : startRecordingResolved(o))
       /\ Called("startRecording.resolved", 0) /\ UNCHANGED besideMedia
  \/ (\E o \in InFlight : stopRecordingResolved(o))
       /\ Called("stopRecording.resolved", 0) /\ UNCHANGED besideMedia
  \/ (\E o \in InFlight : recordingRejected(o) /\ Called(o.op \o ".rejected", 0))
       /\ UNCHANGED besideMedia
  \/ endConference /\ Called("endConference", 0) /\ UNCHANGED besideMedia
  \/ (\E o \in InFlight : endResolved(o)) /\ Called("endConference.resolved", 0)
       /\ UNCHANGED besideMedia
  \/ clearConference /\ Called("timeout", 0) /\ UNCHANGED besideMedia
  \/ (\E b \in BOOLEAN : setSipClient(b)) /\ Called("setSipClient", 0)
       /\ UNCHANGED besideMedia

SpecMedia == Init /\ [][NextMedia]_vars

(* ======================= lifecycle of the owning component ======================= *)
\* The conference lifecycle calls together with the onUnmounted hook (lines
\* 1284-1299) and the clearing timeout of endConference (lines 910-912). The
\* membership options of a conference play no part here: conferences are created
\* with the default options.

\* onUnmounted, lines 1284-1299: stop the polling, end the conference if it is
\* Active (the endConference of lines 889-920, its rejection caught and logged),
\* then drop the listeners (none are registered in this composition)
conferenceUnmounted ==
  /\ ~unmounted
  /\ unmounted' = TRUE
  /\ IF HasConf /\ isActive
       THEN IF confSipClient
              THEN /\ CanStart
                   /\ ClearsAhead < MaxClear
                   /\ stopAudioLevelMonitoring
                   /\ conference' = updateConferenceState(conference, "Ending")
                   /\ pending' = Start(Op("end", 0))
                   /\ published' = stateChanged(conference, "Ending")
                   /\ UNCHANGED clearTimeouts
              ELSE /\ ClearsAhead < MaxClear
                   /\ endCompleted(updateConferenceState(conference, "Ending"))
                   /\ published' = stateChanged(conference, "Ending")
                                      \o stateChanged(conference, "Ended")
                   /\ UNCHANGED pending
       ELSE /\ stopAudioLevelMonitoring
            /\ published' = <<>>
            /\ UNCHANGED <<conference, pending, clearTimeouts>>
  /\ thrown' = "none"
  /\ emitted' = <<>>
  /\ UNCHANGED confSipClient

\* the timeouts of lines 910-912 fire in the order they were scheduled; a timeout
\* scheduled by this step was scheduled by the end of the conference now held
graceTracked ==
  graceFor' = IF clearTimeouts' > clearTimeouts THEN Append(graceFor, conference'.id)
              ELSE IF clearTimeouts' < clearTimeouts THEN Tail(graceFor)
              ELSE graceFor

\* a call made by the component, which makes none once it is unmounted
mountedStep == ~unmounted /\ graceTracked /\ UNCHANGED <<unmounted, besideLife>>

\* a continuation or timer of the composable, which runs unmounted or not
laterStep == graceTracked /\ UNCHANGED <<unmounted, besideLife>>

NextLifecycle ==
  \/ createConference(0, FALSE) /\ mountedStep
  \/ joinConference(0) /\ mountedStep
  \/ endConference /\ mountedStep
  \/ (\E b \in BOOLEAN : setSipClient(b)) /\ mountedStep
  \/ conferenceUnmounted /\ graceTracked /\ UNCHANGED besideLife
  \/ clearConference /\ laterStep
  \/ (\E o \in InFlight : createResolved(o)) /\ laterStep
  \/ (\E o \in InFlight : createRejected(o)) /\ laterStep
  \/ (\E o \in InFlight : joinResolved(o)) /\ laterStep
  \/ (\E o \in InFlight : joinRejected(o)) /\ laterStep
  \/ (\E o \in InFlight : endResolved(o)) /\ laterStep
  \/ (\E o \in InFlight : endRejected(o)) /\ laterStep

SpecLifecycle == Init /\ [][NextLifecycle]_vars

\* every remote request the composable awaits settles, and every timeout fires
requestSettles ==
  \E o \in InFlight :
    \/ createResolved(o) \/ createRejected(o)
    \/ joinResolved(o) \/ joinRejected(o)
    \/ endResolved(o) \/ endRejected(o)

FairLifecycle ==
  /\ SpecLifecycle
  /\ WF_vars(requestSettles /\ laterStep)
  /\ WF_vars(clearConference /\ laterStep)

(* ======================= conference event listeners ======================= *)
\* onConferenceEvent (lines 1268-1279) and emitConferenceEvent (lines 344-353).
\* A callback is known by what it does when it is called: it returns, it throws,
\* it calls its own unsubscribe function and returns, or it does that and throws.
Callbacks == {"returns", "throws", "once", "onceThrows"}
Throws(cb) == cb \in {"throws", "onceThrows"}
Unsubscribes(cb) == cb \in {"once", "onceThrows"}

\* Array.prototype.indexOf, 0 standing for -1
indexOf(list, cb) ==
  IF \E i \in 1..Len(list) : list[i] = cb
    THEN CHOOSE i \in 1..Len(list) : list[i] = cb /\ \A j \in 1..(i - 1) : list[j] # cb
    ELSE 0

\* Array.prototype.splice(index, 1)
splice(list, i) == [j \in 1..(Len(list) - 1) |-> IF j < i THEN list[j] ELSE list[j + 1]]

\* the function onConferenceEvent returns, lines 1272-1277
unsubscribed(list, cb) ==
  IF indexOf(list, cb) # 0 THEN splice(list, indexOf(list, cb)) ELSE list

\* an exception escaping the try of lines 347-351 instead of being caught
listenerErrorEscapes == FALSE

\* lines 347-351: try { listener(event) } catch (error) { log.error(...) }
listenerErrorCaught == TRUE

\* Array.prototype.forEach over the live array: the length is read once, an index
\* that is no longer in the array is skipped; out is [delivered, threw]
RECURSIVE forEachListener(_, _, _, _)
forEachListener(k, len, list, out) ==
  IF k > len \/ out.threw
    THEN [listeners |-> list, delivered |-> out.delivered, threw |-> out.threw]
  ELSE IF k > Len(list)
    THEN forEachListener(k + 1, len, list, out)
  ELSE LET cb == list[k]
           after == IF Unsubscribes(cb) THEN unsubscribed(list, cb) ELSE list
       IN  forEachListener(k + 1, len, after,
                           [delivered |-> Append(out.delivered, cb),
                            threw |-> Throws(cb) /\ ~listenerErrorCaught])

onConferenceEvent(cb) ==
  /\ Len(conferenceEventListeners) < MaxListeners
  /\ conferenceEventListeners' = Append(conferenceEventListeners, cb)
  /\ delivered' = <<>>
  /\ emitThrew' = FALSE
  /\ evLast' = "on"

\* a caller uses the function onConferenceEvent returned
unsubscribe(cb) ==
  /\ conferenceEventListeners' = unsubscribed(conferenceEventListeners, cb)
  /\ delivered' = <<>>
  /\ emitThrew' = FALSE
  /\ evLast' = "off"

emitConferenceEvent ==
  LET r == forEachListener(1, Len(conferenceEventListeners), conferenceEventListeners,
                           [delivered |-> <<>>, threw |-> FALSE])
  IN  /\ conferenceEventListeners' = r.listeners
      /\ delivered' = r.delivered
      /\ emitThrew' = r.threw
      /\ evLast' = "emit"

\* line 1298 of onUnmounted
clearListeners ==
  /\ conferenceEventListeners' = <<>>
  /\ delivered' = <<>>
  /\ emitThrew' = FALSE
  /\ evLast' = "unmounted"

NextEvents ==
  \/ (\E cb \in Callbacks : onConferenceEvent(cb)) /\ UNCHANGED besideEvents
  \/ (\E cb \in Callbacks : unsubscribe(cb)) /\ UNCHANGED besideEvents
  \/ emitConferenceEvent /\ UNCHANGED besideEvents
  \/ clearListeners /\ UNCHANGED besideEvents

SpecEvents == Init /\ [][NextEvents]_vars

(* ======================= owners of an event bus ======================= *)
\* The setup of useSipClient (lines 1488-1503), setupEventListeners and the cleanup
\* function it returns (lines 1571-1656), and onUnmounted (lines 1878-1892), for
\* several owners.  EventBus itself (core/EventBus) is modelled after section 4.1
\* of the specification: on() registers a handler under an event name and returns
\* a fresh id, off(name, id) removes the handler registered under that name and
\* id, emit(name) calls the handlers registered under the name.
Buses == 1..MaxBuses
OwnerIds == 1..MaxOwners

\* the event names in the order setupEventListeners registers them, lines 1576-1628
setupEventNames ==
  <<"sip:connected", "sip:disconnected", "sip:registered", "sip:unregistered",
    "sip:registration_failed", "sip:registration_expiring">>

\* the list with two names exchanged
cleanupEventNamesSwapped ==
  <<"sip:disconnected", "sip:connected", "sip:registered", "sip:unregistered",
    "sip:registration_failed", "sip:registration_expiring">>

\* the event names the cleanup function pairs with the ids, lines 1639-1646
cleanupEventNames ==
  <<"sip:connected", "sip:disconnected", "sip:registered", "sip:unregistered",
    "sip:registration_failed", "sip:registration_expiring">>

\* EventBus.on: the id of the k-th handler owner o registers
busOnId(o, k) == 6 * (o - 1) + k

\* EventBus.on for the six handlers of owner o
busOn(subs, b, o) ==
  subs \cup {[bus |-> b, event |-> setupEventNames[k], id |-> busOnId(o, k), owner |-> o] :
               k \in 1..6}

\* EventBus.off(name, id)
busOff(subs, b, name, id) ==
  {h \in subs : ~(h.bus = b /\ h.event = name /\ h.id = id)}

\* EventBus.emit: the handlers registered on bus b under the name
busHandlers(b, name) == {h \in subscriptions : h.bus = b /\ h.event = name}

\* ids.forEach((id, index) => eventBus.off(eventNames[index], id)), lines 1638-1648
RECURSIVE offAll(_, _, _, _)
offAll(subs, b, o, k) ==
  IF k > 6 THEN subs
  ELSE offAll(busOff(subs, b, cleanupEventNames[k], busOnId(o, k)), b, o, k + 1)

\* a warning for the third owner only
warnsFromThird(currentCount) == currentCount > 1

\* lines 1496-1502: if (currentCount > 0) logger.warn(...)
warns(currentCount) == currentCount > 0

\* a flag in place of the count: any cleanup removes the entry
countAfterCleanupFlag(count) == 0

\* lines 1649-1654: delete the entry when count <= 1, else count - 1
countAfterCleanup(count) == IF count <= 1 THEN 0 ELSE count - 1

FreshOwner == CHOOSE o \in OwnerIds \ DOMAIN owners :
                \A p \in OwnerIds \ DOMAIN owners : o <= p

\* useSipClient(config, {eventBus, autoCleanup}) up to line 1659
useSipClient(b, autoCleanup) ==
  /\ OwnerIds \ DOMAIN owners # {}
  /\ LET o == FreshOwner
         currentCount == eventBusInstanceCounts[b]
     IN  /\ warned' = warns(currentCount)
         /\ eventBusInstanceCounts' = [eventBusInstanceCounts EXCEPT ![b] = currentCount + 1]
         /\ owners' = [p \in DOMAIN owners \cup {o} |->
                         IF p = o THEN [bus |-> b, autoCleanup |-> autoCleanup,
                                        mounted |-> TRUE, error |-> "none"]
                                  ELSE owners[p]]
         /\ subscriptions' = busOn(subscriptions, b, o)
         /\ busLast' = [call |-> "useSipClient", owner |-> o]

\* the cleanup function returned by setupEventListeners, lines 1635-1655
cleanupEventListeners(o) ==
  /\ subscriptions' = offAll(subscriptions, owners[o].bus, o, 1)
  /\ eventBusInstanceCounts' =
       [eventBusInstanceCounts EXCEPT ![owners[o].bus] =
          countAfterCleanup(IF @ = 0 THEN 1 ELSE @)]

\* the component of owner o is unmounted, lines 1878-1892
ownerUnmounted(o) ==
  /\ o \in DOMAIN owners /\ owners[o].mounted
  /\ owners' = [owners EXCEPT ![o].mounted = FALSE]
  /\ IF owners[o].autoCleanup
       THEN cleanupEventListeners(o)
       ELSE UNCHANGED <<subscriptions, eventBusInstanceCounts>>
  /\ warned' = FALSE
  /\ busLast' = [call |-> "unmount", owner |-> o]

\* what a handler of lines 1576-1628 does to the error ref of its owner
handled(name, withData, err) ==
  CASE name = "sip:connected" -> "none"
    [] name = "sip:disconnected" -> IF withData THEN "Transport error" ELSE err
    [] name = "sip:registration_failed" -> "Registration failed"
    [] OTHER -> err

\* an event is emitted on bus b; withData: the payload carries an error
busEmit(b, name, withData) ==
  /\ owners' = [o \in DOMAIN owners |->
                  IF \E h \in busHandlers(b, name) : h.owner = o
                    THEN [owners[o] EXCEPT !.error = handled(name, withData, @)]
                    ELSE owners[o]]
  /\ warned' = FALSE
  /\ busLast' = [call |-> "emit", owner |-> 0]
  /\ UNCHANGED <<eventBusInstanceCounts, subscriptions>>

NextBus ==
  \/ (\E b \in Buses, autoCleanup \in BOOLEAN : useSipClient(b, autoCleanup))
       /\ UNCHANGED besideBus
  \/ (\E o \in OwnerIds : ownerUnmounted(o)) /\ UNCHANGED besideBus
  \/ (\E b \in Buses, k \in 1..6, withData \in BOOLEAN :
        busEmit(b, setupEventNames[k], withData)) /\ UNCHANGED besideBus

SpecBus == Init /\ [][NextBus]_vars

(* ======================= session registry ======================= *)
\* SessionRegistry is not in the source tree (the benchmark
\* tests/performance/benchmarks/callSession.bench.ts, lines 1377-1402, keeps its
\* sessions in a Map beside the CallSession objects); add and remove are modelled
\* after section 4.4 of the specification.
SessionIds == 1..MaxSessionIds

\* an add that lets the session in whatever the size
registryAddUnbounded(id) ==
  /\ id \notin registry
  /\ registry' = registry \cup {id}
  /\ regLast' = [call |-> "add", id |-> id, err |-> "none"]

\* add(session): rejected with a CapacityError when the registry is at the maximum
registryAdd(id) ==
  /\ id \notin registry
  /\ IF Cardinality(registry) >= MaxSessions
       THEN /\ regLast' = [call |-> "add", id |-> id, err |-> "CapacityError"]
            /\ UNCHANGED registry
       ELSE /\ registry' = registry \cup {id}
            /\ regLast' = [call |-> "add", id |-> id, err |-> "none"]

\* remove(id): a session that reached a terminal state is taken out
registryRemove(id) ==
  /\ id \in registry
  /\ registry' = registry \ {id}
  /\ regLast' = [call |-> "remove", id |-> id, err |-> "none"]

NextRegistry ==
  \/ (\E id \in SessionIds : registryAdd(id)) /\ UNCHANGED besideRegistry
  \/ (\E id \in SessionIds : registryRemove(id)) /\ UNCHANGED besideRegistry

SpecRegistry == Init /\ [][NextRegistry]_vars

(* ======================= call session ======================= *)
\* CallSession (core/CallSession) and the composables around it (useCallSession,
\* useSipDtmf) are not in the source tree; the benchmark
\* tests/performance/benchmarks/callSession.bench.ts only calls them.  The session
\* is modelled after section 4.3 of the specification, its suspension points and
\* cancellation after section 5.
Tones == 1..MaxTones
Terminal == {"Terminated", "Failed"}
Exists == callState # "none"

Did(call, outcome, tone) == callLast' = [call |-> call, outcome |-> outcome, tone |-> tone]

\* errors are known by their class and their name
NoError == [dom |-> FALSE, name |-> "none"]

\* src/src/utils/abortController.ts, lines 11-13: new DOMException(message, 'AbortError')
createAbortError == [dom |-> TRUE, name |-> "AbortError"]

\* lines 20-22: error instanceof DOMException && error.name === 'AbortError'
isAbortError(e) == e.dom /\ e.name = "AbortError"

\* lines 53-57: what it throws, NoError when it returns
throwIfAborted(aborted) == IF aborted THEN createAbortError ELSE NoError

\* what a failing media acquisition rejects with: a DOMException of another name,
\* an Error that is no DOMException but is named AbortError, a plain Error
MediaErrors == {[dom |-> TRUE, name |-> "NotAllowedError"],
                [dom |-> FALSE, name |-> "AbortError"],
                [dom |-> FALSE, name |-> "Error"]}

\* the outcome the operation reports for an error: a cancellation or a failure
reported(e) == IF isAbortError(e) THEN "cancelled" ELSE "MediaError"

\* an operation that is refused, or is a no-op, and changes nothing
callUnchanged(call, outcome, tone) ==
  /\ Did(call, outcome, tone)
  /\ UNCHANGED <<callState, transportCloses, answerStage, cancelRequested, acquired,
                 dtmfQueue>>

\* an incoming call notification arrives, or an outgoing call is initiated
newSession(incoming) ==
  /\ callState = "none"
  /\ callState' = IF incoming THEN "Ringing" ELSE "Initiating"
  /\ Did("new", "ok", 0)
  /\ UNCHANGED <<transportCloses, answerStage, cancelRequested, acquired, dtmfQueue>>

\* session-progress and session-accepted of an outgoing call
remoteProgress ==
  /\ callState = "Initiating"
  /\ callState' = "Progress"
  /\ Did("progress", "ok", 0)
  /\ UNCHANGED <<transportCloses, answerStage, cancelRequested, acquired, dtmfQueue>>

remoteAccepted ==
  /\ callState \in {"Initiating", "Progress"}
  /\ callState' = "Active"
  /\ Did("accepted", "ok", 0)
  /\ UNCHANGED <<transportCloses, answerStage, cancelRequested, acquired, dtmfQueue>>

\* the transport ends the session with a failure: Failed is reachable from any
\* non-terminal state; what an answer() in flight had acquired is released
transportFailed ==
  /\ Exists /\ callState \notin Terminal
  /\ callState' = "Failed"
  /\ answerStage' = "idle"
  /\ cancelRequested' = FALSE
  /\ acquired' = 0
  /\ dtmfQueue' = <<>>
  /\ Did("failed", "TransportError", 0)
  /\ UNCHANGED transportCloses

\* answer(): valid only from Ringing, and only one at a time
answer ==
  /\ Exists
  /\ IF callState # "Ringing" \/ answerStage # "idle"
       THEN callUnchanged("answer", "StateError", 0)
       ELSE /\ answerStage' = "acquiring"
            /\ cancelRequested' = FALSE
            /\ Did("answer", "started", 0)
            /\ UNCHANGED <<callState, transportCloses, acquired, dtmfQueue>>

\* the caller cancels the token it gave to the answer() in flight
cancelAnswer ==
  /\ answerStage # "idle" /\ ~cancelRequested
  /\ cancelRequested' = TRUE
  /\ Did("cancel", "ok", 0)
  /\ UNCHANGED <<callState, transportCloses, answerStage, acquired, dtmfQueue>>

\* a cancelled answer() that would keep what it had acquired
answerCancelledKeepsMedia ==
  /\ answerStage' = "idle"
  /\ cancelRequested' = FALSE
  /\ UNCHANGED <<acquired, callState, transportCloses, dtmfQueue>>

\* the answer() sees its token cancelled at a suspension point: it releases what
\* it acquired and reports the cancellation
answerCancelled ==
  /\ answerStage' = "idle"
  /\ cancelRequested' = FALSE
  /\ acquired' = 0
  /\ UNCHANGED <<callState, transportCloses, dtmfQueue>>

\* a media stream the answer() waited for has been acquired
mediaAcquired ==
  /\ answerStage = "acquiring"
  /\ IF throwIfAborted(cancelRequested) # NoError
       THEN answerCancelled
            /\ Did("answer.media", reported(throwIfAborted(cancelRequested)), 0)
       ELSE /\ acquired' = acquired + 1
            /\ answerStage' = IF acquired + 1 = MaxTracks THEN "confirming" ELSE "acquiring"
            /\ Did("answer.media", "ok", 0)
            /\ UNCHANGED <<callState, transportCloses, cancelRequested, dtmfQueue>>

\* media acquisition fails: what was acquired is released and the error is
\* surfaced, unless the token was cancelled, which is what is reported then
mediaFailed(e) ==
  /\ answerStage = "acquiring"
  /\ answerStage' = "idle"
  /\ cancelRequested' = FALSE
  /\ acquired' = 0
  /\ Did("answer.media",
         reported(IF cancelRequested THEN createAbortError ELSE e), 0)
  /\ UNCHANGED <<callState, transportCloses, dtmfQueue>>

\* the transport confirms the answer
answerConfirmed ==
  /\ answerStage = "confirming"
  /\ IF throwIfAborted(cancelRequested) # NoError
       THEN answerCancelled
            /\ Did("answer.confirmed", reported(throwIfAborted(cancelRequested)), 0)
       ELSE /\ callState' = "Active"
            /\ answerStage' = "idle"
            /\ Did("answer.confirmed", "ok", 0)
            /\ UNCHANGED <<transportCloses, cancelRequested, acquired, dtmfQueue>>

\* a hangup() that closes the transport handle whenever it is called
hangupUnguarded ==
  /\ Exists
  /\ callState' = IF callState \in Terminal THEN callState ELSE "Terminating"
  /\ transportCloses' = transportCloses + 1
  /\ answerStage' = "idle"
  /\ cancelRequested' = FALSE
  /\ acquired' = 0
  /\ dtmfQueue' = <<>>
  /\ Did("hangup", "ok", 0)

\* hangup() / reject(): from a non-terminal state it closes the transport handle,
\* cancelling an answer() in flight first; while a hangup is in progress, or once
\* the session is terminal, it is a no-op
hangup ==
  /\ Exists
  /\ IF callState \in Terminal \cup {"Terminating"}
       THEN callUnchanged("hangup", "noop", 0)
       ELSE /\ callState' = "Terminating"
            /\ transportCloses' = transportCloses + 1
            /\ answerStage' = "idle"
            /\ cancelRequested' = FALSE
            /\ acquired' = 0
            /\ dtmfQueue' = <<>>
            /\ Did("hangup", "ok", 0)

\* the transport reports the session ended
hangupCompleted ==
  /\ callState = "Terminating"
  /\ callState' = "Terminated"
  /\ Did("hangup.completed", "ok", 0)
  /\ UNCHANGED <<transportCloses, answerStage, cancelRequested, acquired, dtmfQueue>>

\* hold() / unhold(): valid only from Active / Held
hold ==
  /\ Exists
  /\ IF callState # "Active"
       THEN callUnchanged("hold", "StateError", 0)
       ELSE /\ callState' = "Held"
            /\ Did("hold", "ok", 0)
            /\ UNCHANGED <<transportCloses, answerStage, cancelRequested, acquired,
                           dtmfQueue>>

unhold ==
  /\ Exists
  /\ IF callState # "Held"
       THEN callUnchanged("unhold", "StateError", 0)
       ELSE /\ callState' = "Active"
            /\ Did("unhold", "ok", 0)
            /\ UNCHANGED <<transportCloses, answerStage, cancelRequested, acquired,
                           dtmfQueue>>

\* a queue that refuses the tone when it is full
enqueuedOrRejected(queue, tone) == IF Len(queue) >= MaxQueue THEN queue ELSE Append(queue, tone)

\* the queue after a tone is enqueued: a full queue drops its oldest tone
enqueued(queue, tone) ==
  IF Len(queue) >= MaxQueue THEN Append(Tail(queue), tone) ELSE Append(queue, tone)

\* sendDtmf(tone): valid only while Active
sendDtmf(tone) ==
  /\ Exists
  /\ IF callState # "Active"
       THEN callUnchanged("sendDtmf", "StateError", tone)
       ELSE /\ dtmfQueue' = enqueued(dtmfQueue, tone)
            /\ Did("sendDtmf", IF Len(dtmfQueue) >= MaxQueue THEN "overflow" ELSE "ok", tone)
            /\ UNCHANGED <<callState, transportCloses, answerStage, cancelRequested,
                           acquired>>

\* the oldest queued tone has been sent (one inter-tone gap has passed)
dtmfSent ==
  /\ callState = "Active" /\ dtmfQueue # <<>>
  /\ dtmfQueue' = Tail(dtmfQueue)
  /\ Did("dtmf.sent", "ok", Head(dtmfQueue))
  /\ UNCHANGED <<callState, transportCloses, answerStage, cancelRequested, acquired>>

NextCall ==
  \/ (\E incoming \in BOOLEAN : newSession(incoming)) /\ UNCHANGED besideCall
  \/ remoteProgress /\ UNCHANGED besideCall
  \/ remoteAccepted /\ UNCHANGED besideCall
  \/ transportFailed /\ UNCHANGED besideCall
  \/ answer /\ UNCHANGED besideCall
  \/ cancelAnswer /\ UNCHANGED besideCall
  \/ mediaAcquired /\ UNCHANGED besideCall
  \/ (\E e \in MediaErrors : mediaFailed(e)) /\ UNCHANGED besideCall
  \/ answerConfirmed /\ UNCHANGED besideCall
  \/ hangup /\ UNCHANGED besideCall
  \/ hangupCompleted /\ UNCHANGED besideCall
  \/ hold /\ UNCHANGED besideCall
  \/ unhold /\ UNCHANGED besideCall
  \/ (\E tone \in Tones : sendDtmf(tone)) /\ UNCHANGED besideCall
  \/ dtmfSent /\ UNCHANGED besideCall

SpecCall == Init /\ [][NextCall]_vars

(* ======================= abortableSleep ======================= *)
\* src/src/utils/abortController.ts, lines 30-46. A promise is known by its state
\* and the value it settled with; its timer is none (never set), armed, fired or
\* cleared; listening says whether abortHandler is registered on the signal.
\* Signal 0 stands for a call without a signal.
Signals == 1..MaxSignals

\* the resolve and reject functions of a promise (line 31): only the first call
\* of either settles it
settle(p, outcome, reason) ==
  IF p.status = "pending" THEN [p EXCEPT !.status = outcome, !.reason = reason] ELSE p

\* clearTimeout(timeoutId): a timer that fired or was cleared stays as it is
clearTimeout(p) == IF p.timer = "armed" THEN [p EXCEPT !.timer = "cleared"] ELSE p

\* an abort handler that rejects and leaves the timer armed
abortHandlerKeepsTimer(p) ==
  settle([p EXCEPT !.listening = FALSE], "rejected", createAbortError)

\* lines 39-42, registered with { once: true } at line 44
abortHandler(p) ==
  settle([clearTimeout(p) EXCEPT !.listening = FALSE], "rejected", createAbortError)

abortableSleep(ms, signal) ==
  /\ Len(sleeps) < MaxSleeps
  /\ sleeps' = Append(sleeps,
       IF signal # 0 /\ signal \in abortedSignals
         THEN \* lines 32-35
              [signal |-> signal, due |-> now, timer |-> "none", listening |-> FALSE,
               status |-> "rejected", reason |-> createAbortError]
         ELSE \* lines 37-44
              [signal |-> signal, due |-> now + ms, timer |-> "armed",
               listening |-> (signal # 0), status |-> "pending", reason |-> NoError])
  /\ sleepLast' = [call |-> "abortableSleep", arg |-> signal]
  /\ UNCHANGED <<abortedSignals, now>>

\* the timer of line 37 fires, no earlier than ms after it was set: resolve()
timeoutFires(i) ==
  /\ sleeps[i].timer = "armed"
  /\ now >= sleeps[i].due
  /\ sleeps' = [sleeps EXCEPT ![i] = settle([@ EXCEPT !.timer = "fired"], "resolved", NoError)]
  /\ sleepLast' = [call |-> "timeout", arg |-> i]
  /\ UNCHANGED <<abortedSignals, now>>

\* the owner of the signal aborts it: the first abort() sets `aborted` and calls
\* every handler registered on the signal, a later one does nothing
abort(signal) ==
  /\ abortedSignals' = abortedSignals \cup {signal}
  /\ sleeps' = IF signal \in abortedSignals THEN sleeps
               ELSE [i \in DOMAIN sleeps |->
                       IF sleeps[i].signal = signal /\ sleeps[i].listening
                         THEN abortHandler(sleeps[i]) ELSE sleeps[i]]
  /\ sleepLast' = [call |-> "abort", arg |-> signal]
  /\ UNCHANGED now

tick ==
  /\ now < MaxNow
  /\ now' = now + 1
  /\ sleepLast' = [call |-> "tick", arg |-> 0]
  /\ UNCHANGED <<sleeps, abortedSignals>>

NextSleep ==
  \/ (\E ms \in 0..MaxMs, signal \in {0} \cup Signals : abortableSleep(ms, signal))
       /\ UNCHANGED besideSleep
  \/ (\E i \in DOMAIN sleeps : timeoutFires(i)) /\ UNCHANGED besideSleep
  \/ (\E signal \in Signals : abort(signal)) /\ UNCHANGED besideSleep
  \/ tick /\ UNCHANGED besideSleep

SpecSleep == Init /\ [][NextSleep]_vars

(* ======================= properties ======================= *)

Participants == conference.participants
AddsInFlight(b) == {o \in BagToSet(b) : o.op = "add"}
SameConference == HasConf /\ conference'.id = conference.id

\* C1: in every reachable state the number of entries of the participants mapping
\* is at most maxParticipants, whatever addParticipant/removeParticipant calls are
\* in flight.
C1_CountWithinMax ==
  HasConf => Cardinality(DOMAIN Participants) <= conference.maxParticipants

\* a full conference with two invites still in flight has just refused a third
C1_Witness ==
  /\ HasConf
  /\ Cardinality(DOMAIN Participants) = conference.maxParticipants
  /\ Cardinality(AddsInFlight(pending)) = 2
  /\ thrown = "Conference is full"

\* C2: while isLocked is true no step inserts a participant or starts an invite,
\* and the step that throws "Conference is locked" is taken on a locked conference
\* and leaves the conference, its participants mapping included, as it was.
C2_LockedRejectsAdd ==
  [][ /\ (HasConf /\ conference.isLocked /\ SameConference)
         => /\ DOMAIN conference'.participants \subseteq DOMAIN Participants
            /\ AddsInFlight(pending') \subseteq AddsInFlight(pending)
      /\ (thrown' = "Conference is locked")
         => /\ HasConf /\ conference.isLocked
            /\ conference' = conference
            /\ pending' = pending ]_vars

\* addParticipant was refused on a locked conference that has room left
C2_Witness ==
  /\ thrown = "Conference is locked"
  /\ HasConf /\ conference.isLocked
  /\ conference.state = "Active"
  /\ Cardinality(DOMAIN Participants) < conference.maxParticipants

\* C3: createConference is accepted only from Idle, Ended or a cleared conference;
\* while the conference is Creating, Active or Ending no step replaces it by a
\* conference that createConference built (one that has a local participant).
C3_CreateOnlyFromIdle ==
  [][ (HasConf /\ conference.state \in {"Creating", "Active", "Ending"})
      => ~(conference'.id \notin {0, conference.id} /\ conference'.localParticipant # 0) ]_vars

\* C4: a conference that failed holds no participant state: its participants
\* mapping is empty and localParticipant is unset.
C4_FailedLeavesNothing ==
  (HasConf /\ conference.state = "Failed")
    => (DOMAIN Participants = {} /\ conference.localParticipant = 0)

\* C5: whenever a conference exists exactly one entry of its participants mapping
\* is flagged isSelf.
C5_ExactlyOneSelf ==
  HasConf => Cardinality({p \in DOMAIN Participants : Participants[p].isSelf}) = 1

ConferenceEdges ==
  { <<"Creating", "Active">>, <<"Active", "Ending">>, <<"Ending", "Ended">>,
    <<"Creating", "Failed">>, <<"Active", "Failed">> }

\* C6: the state of a conference object changes only along Creating->Active->
\* Ending->Ended, Creating->Failed and Active->Failed (a new object starts at
\* Creating out of Idle).
C6_OnlyDocumentedEdges ==
  [][ /\ SameConference
         => (conference'.state = conference.state
             \/ <<conference.state, conference'.state>> \in ConferenceEdges)
      /\ (~HasConf /\ conference'.id # 0) => conference'.state = "Creating" ]_vars

\* C7: once endConference has been called (the conference is Ending or Ended) the
\* settling of a call that was in flight neither moves the conference to Active
\* nor marks a participant Connected.
C7_TeardownWins ==
  [][ (/\ SameConference
       /\ conference.state \in {"Ending", "Ended"}
       /\ BagCardinality(pending') < BagCardinality(pending))
      => /\ conference'.state # "Active"
         /\ \A p \in DOMAIN conference'.participants :
              (p \in DOMAIN Participants /\ Participants[p].state # "Connected")
                => conference'.participants[p].state # "Connected" ]_vars

\* C8: an audio-level polling timer is live only while the conference is Active.
C8_PollingOnlyWhileActive ==
  intervals # {} => state = "Active"

\* C9: at most one polling timer is live at any time, and none is live once the
\* lifecycle has ended (the conference is Ended, Failed or cleared).
C9_NoLeakedTimer ==
  /\ Cardinality(intervals) <= 1
  /\ state \in {"Idle", "Ended", "Failed"} => intervals = {}

\* SipClient instances that were constructed and on which no stop() has completed
LiveClients == clients \ stopped

\* C10: under any interleaving of connect() and disconnect() calls at most one
\* SipClient instance is live at a time.
C10_AtMostOneLiveClient ==
  Cardinality(LiveClients) <= 1

\* C11: a connect() called while the connection is Connecting or Connected is
\* refused with "connect already in progress": it starts nothing, constructs
\* nothing and leaves the connection and the calls in flight as they were.
C11_ConnectGuarded ==
  [][ (sipLast'.call = "connect" /\ connectionState \in {"connecting", "connected"})
      => /\ sipLast'.err = "connect already in progress"
         /\ sipPending' = sipPending
         /\ connection' = connection
         /\ sipClient' = sipClient /\ clients' = clients ]_vars

\* C12: when a disconnect() settles while a connect() is in flight, the
\* connection is Disconnected, no client is held and no connect() is left in
\* flight that could still complete.
C12_DisconnectCancelsConnect ==
  [][ (/\ sipLast'.call \in {"disconnect.resolved", "disconnect.rejected"}
       /\ \E o \in SipInFlight : o.call = "connect")
      => /\ sipClient' = 0
         /\ connectionState' = "disconnected"
         /\ \A o \in BagToSet(sipPending') : o.call # "connect" ]_vars

\* stop() calls in flight on instance c
Closings(c) ==
  CopiesIn(SipOp("disconnect", c), sipPending)
    + CopiesIn(SipOp("reconnect.stop", c), sipPending)

\* C13: no SipClient instance is closed twice (a stop() is never issued on an
\* instance that is being stopped or was stopped), and no instance that is still
\* live is abandoned: it is held by the composable or a stop() on it is in flight.
C13_ClosedExactlyOnce ==
  \A c \in clients :
    /\ Closings(c) + (IF c \in stopped THEN 1 ELSE 0) <= 1
    /\ (c \notin stopped /\ Closings(c) = 0) => c = sipClient

C15_ThreeAttemptsThenFailed ==
  (/\ sipLast = Ran("reconnect.rejected", "Connection failed")
   /\ \A o \in SipInFlight :
        o.call \notin {"reconnect.stop", "reconnect.delay", "reconnect.start"})
    => (reconnectAttempts = 3 /\ connectionState = "failed")

\* C16: every step in which the connection leaves Connected leaves the
\* registration Unregistered.
C16_LeavingConnectedUnregisters ==
  [][ (connectionState = "connected" /\ connectionState' # "connected")
      => registration' = "unregistered" ]_vars

\* C17: the registration moves to Registering or Registered only in a step taken
\* while the connection is Connected; a register() issued in any other connection
\* state leaves it out of both.
C17_RegisterOnlyWhenConnected ==
  [][ (registration' \in {"registering", "registered"} /\ registration' # registration)
      => connectionState = "connected" ]_vars

\* participants that addParticipant inserted (all but the local one)
Added == {p \in DOMAIN Participants : ~Participants[p].isSelf}

\* C18 as stated: on a conference made by createConference an addParticipant is
\* refused as full only after maxParticipants participants have been added.
C18_MaxAddsSucceed ==
  [][ (thrown' = "Conference is full" /\ conference.localParticipant # 0)
      => Cardinality(Added) = conference.maxParticipants ]_vars

\* C18 (amended): the local participant takes one place.  addParticipant is
\* refused as full exactly when the count has reached maxParticipants, that is
\* after maxParticipants - 1 additions to a conference made by createConference;
\* the refusal leaves the conference as it was, and no accepted addition takes
\* the count above maxParticipants.
C18_AddsUpToCapacity ==
  [][ /\ (thrown' = "Conference is full")
         => /\ HasConf
            /\ Cardinality(DOMAIN Participants) = conference.maxParticipants
            /\ (conference.localParticipant # 0
                  => Cardinality(Added) = conference.maxParticipants - 1)
            /\ conference' = conference
            /\ pending' = pending
      /\ (SameConference /\ ~(DOMAIN conference'.participants \subseteq DOMAIN Participants))
         => /\ Cardinality(DOMAIN Participants) < conference.maxParticipants
            /\ Cardinality(DOMAIN conference'.participants)
                 = Cardinality(DOMAIN Participants) + 1 ]_vars

\* every place but the local participant's was filled by additions that completed,
\* and one further addParticipant has just been refused
C18_Witness ==
  /\ thrown = "Conference is full"
  /\ HasConf /\ conference.state = "Active" /\ ~conference.isLocked
  /\ conference.localParticipant \in DOMAIN Participants
  /\ Added # {}
  /\ \A p \in Added : Participants[p].state = "Connected"
  /\ Cardinality(DOMAIN Participants) = conference.maxParticipants

\* C19: a conference that endConference left Ended stays Ended for as long as its
\* clearing timeout is pending, and the firing of the timeout leaves no
\* conference (the state reads Idle).
C19_EndedUntilCleared ==
  [][ /\ (HasConf /\ conference.state = "Ended" /\ clearTimeouts > 0 /\ SameConference)
         => conference'.state = "Ended"
      /\ (clearTimeouts' < clearTimeouts) => conference'.id = 0 ]_vars

\* C20: every step in which the conference enters a state (a new conference, or
\* a change of state of the current one) announces that state in an event, the
\* last one of the step; and an event announces no state other than the one the
\* conference is in when the step ends.
C20_EventsFollowStates ==
  [][ /\ (conference'.id # 0
           /\ (conference'.id # conference.id \/ conference'.state # conference.state))
         => (published' # <<>> /\ published'[Len(published')] = conference'.state)
      /\ (published' # <<>>)
         => (conference'.id # 0 /\ published'[Len(published')] = conference'.state) ]_vars

\* C24: a muteParticipant() for a participant that is already muted, a
\* lockConference() on a conference that is already locked and a stopRecording()
\* while nothing is being recorded throw nothing, emit no event and change nothing.
C24_RepeatIsNoOp ==
  [][ ( \/ /\ confLast'.call = "muteParticipant"
           /\ HasConf
           /\ confLast'.pid \in DOMAIN Participants
           /\ Participants[confLast'.pid].isMuted
        \/ (confLast'.call = "lockConference" /\ HasConf /\ conference.isLocked)
        \/ (confLast'.call = "stopRecording" /\ HasConf /\ ~conference.isRecording) )
      => /\ thrown' = "none"
         /\ emitted' = <<>>
         /\ published' = <<>>
         /\ conference' = conference
         /\ pending' = pending ]_vars

\* a lockConference() has just run on a conference that is (and was) locked
C24_Witness ==
  /\ confLast.call = "lockConference"
  /\ HasConf /\ conference.isLocked
  /\ thrown = "none" /\ emitted = <<>>

\* the calls and continuations of startRecording() and stopRecording()
RecordingSteps ==
  {"startRecording", "stopRecording", "startRecording.resolved",
   "stopRecording.resolved", "startRec.rejected", "stopRec.rejected"}

\* C25: a step of startRecording() or stopRecording() that throws leaves the
\* conference, isRecording included, as it was; isRecording of a conference changes
\* only in the step of a recording call that succeeds and emits the matching event.
C25_FailureLeavesRecording ==
  [][ /\ (confLast'.call \in RecordingSteps /\ thrown' # "none")
         => conference' = conference
      /\ (SameConference /\ conference'.isRecording # conference.isRecording)
         => /\ confLast'.call \in RecordingSteps
            /\ thrown' = "none"
            /\ emitted' = recordingEvent(conference'.isRecording) ]_vars

\* a stopRecording() has just failed and the conference is still being recorded
C25_Witness ==
  /\ confLast.call = "stopRec.rejected"
  /\ thrown = "rejected"
  /\ HasConf /\ conference.isRecording

\* C21: when an event is emitted and no listener unsubscribes during the delivery,
\* every registered listener is called, in registration order, whether or not
\* listeners before it threw, and emitConferenceEvent does not throw to its caller.
C21_ThrowingListenerIsolated ==
  [][ ( /\ evLast' = "emit"
        /\ \A i \in 1..Len(conferenceEventListeners) :
             ~Unsubscribes(conferenceEventListeners[i]) )
      => /\ ~emitThrew'
         /\ delivered' = conferenceEventListeners
         /\ conferenceEventListeners' = conferenceEventListeners ]_vars

\* an event has been delivered to a listener that threw and to one registered after it
C21_Witness ==
  /\ evLast = "emit"
  /\ ~emitThrew
  /\ \E i, j \in 1..Len(delivered) :
       i < j /\ delivered[i] = "throws" /\ delivered[j] = "returns"

\* the owners whose handlers are registered on bus b
Attached(b) == {o \in DOMAIN owners : \E h \in subscriptions : h.bus = b /\ h.owner = o}

\* C22: for every bus the count kept in eventBusInstanceCounts equals the number of
\* owners whose handlers are registered on the bus (zero when none is left).
C22_CountIsAttachedOwners ==
  \A b \in Buses : eventBusInstanceCounts[b] = Cardinality(Attached(b))

\* two owners were attached to one bus and both have been cleaned up: the count is
\* back to zero
C22_Witness ==
  \E b \in Buses :
    /\ eventBusInstanceCounts[b] = 0
    /\ Cardinality({o \in DOMAIN owners : owners[o].bus = b /\ ~owners[o].mounted
                                           /\ owners[o].autoCleanup}) >= 2
    /\ busLast.call = "unmount"

\* C23: the set-up of an owner logs the warning exactly when another owner is
\* attached to the bus it is given; the new owner is attached in either case.
C23_WarnsWhenShared ==
  [][ (busLast'.call = "useSipClient" /\ busLast'.owner \notin DOMAIN owners)
      => LET o == busLast'.owner
             b == owners'[o].bus
         IN  /\ warned' <=> (Attached(b) # {})
             /\ \E h \in subscriptions' : h.bus = b /\ h.owner = o ]_vars

\* an owner has just been set up, without a warning, on a bus whose earlier owner
\* has detached
C23_Witness ==
  /\ busLast.call = "useSipClient"
  /\ ~warned
  /\ \E p \in DOMAIN owners :
       /\ p # busLast.owner
       /\ owners[p].bus = owners[busLast.owner].bus
       /\ ~owners[p].mounted /\ owners[p].autoCleanup

\* the owners cleaned up on unmount
CleanedUp == {o \in DOMAIN owners : ~owners[o].mounted /\ owners[o].autoCleanup}

\* C30: an owner that was cleaned up on unmount has no handler left on any bus, and
\* no later step (an event on its bus included) changes its state.
C30_NoListenerAfterCleanup ==
  [][ \A o \in CleanedUp :
        /\ \A h \in subscriptions : h.owner # o
        /\ owners'[o] = owners[o] ]_vars

\* an event has changed the error of a mounted owner and not that of an owner
\* of the same bus that was cleaned up
C30_Witness ==
  /\ busLast.call = "emit"
  /\ \E o \in CleanedUp, p \in DOMAIN owners :
       /\ owners[p].bus = owners[o].bus
       /\ owners[p].mounted
       /\ owners[p].error = "Registration failed"
       /\ owners[o].error = "none"

\* C27: the registry never tracks more than the configured maximum of sessions; an
\* add made when it is at the maximum fails with a CapacityError and leaves the
\* registry as it was, and any other add of a new session is accepted.
C27_RegistryBounded ==
  [][ /\ Cardinality(registry') <= MaxSessions
      /\ (regLast'.call = "add" /\ Cardinality(registry) >= MaxSessions)
         => (regLast'.err = "CapacityError" /\ registry' = registry)
      /\ (regLast'.call = "add" /\ Cardinality(registry) < MaxSessions
          /\ regLast'.id \notin registry)
         => (regLast'.err = "none" /\ registry' = registry \cup {regLast'.id}) ]_vars

\* an add has just been refused by a full registry
C27_Witness ==
  /\ regLast.call = "add" /\ regLast.err = "CapacityError"
  /\ Cardinality(registry) = MaxSessions
  /\ regLast.id \notin registry

\* C26: the transport handle of a session is asked to close at most once, exactly
\* once when the session is Terminated; a hangup() made while a hangup is in
\* progress or after the session is Terminated changes nothing and raises nothing.
C26_HangupClosesOnce ==
  [][ /\ transportCloses' <= 1
      /\ (callState' = "Terminated") => (transportCloses' = 1)
      /\ (callLast'.call = "hangup" /\ callState \in {"Terminating", "Terminated"})
         => /\ callLast'.outcome = "noop"
            /\ callState' = callState
            /\ transportCloses' = transportCloses ]_vars

\* a second hangup() has just run on a session the first one terminated
C26_Witness ==
  /\ callLast = [call |-> "hangup", outcome |-> "noop", tone |-> 0]
  /\ callState = "Terminated"
  /\ transportCloses = 1

\* C28: the DTMF queue never holds more than the configured maximum; a tone sent
\* while the queue is full is accepted at the end of the queue and the oldest
\* queued tone is dropped, with a warning.
C28_DtmfQueueBounded ==
  [][ /\ Len(dtmfQueue') <= MaxQueue
      /\ (callLast'.call = "sendDtmf" /\ callState = "Active"
          /\ Len(dtmfQueue) >= MaxQueue)
         => /\ callLast'.outcome = "overflow"
            /\ dtmfQueue' = Append(Tail(dtmfQueue), callLast'.tone) ]_vars

\* a tone has just pushed an older, different tone out of the full queue
C28_Witness ==
  /\ callLast.call = "sendDtmf" /\ callLast.outcome = "overflow"
  /\ Len(dtmfQueue) = MaxQueue
  /\ dtmfQueue[MaxQueue] = callLast.tone
  /\ dtmfQueue[1] # callLast.tone

C32_FailedInviteRolledBack ==
  [][ \A o \in InFlight :
        (o.op = "add" /\ pending' = Finish(o) /\ thrown' = "rejected")
          => o.pid \notin DOMAIN conference'.participants ]_vars

\* C37: while the conference is not Active (Creating, Ending, Ended or Failed) no
\* step inserts an entry into its participants mapping or starts an invite.
C37_AddNeedsActive ==
  [][ (HasConf /\ conference.state # "Active" /\ SameConference)
      => /\ DOMAIN conference'.participants \subseteq DOMAIN Participants
         /\ AddsInFlight(pending') \subseteq AddsInFlight(pending) ]_vars

\* C38: when the remote removal of a removeParticipant() fails, the participant,
\* if still an entry of the mapping, is not left marked Disconnected.
C38_FailedRemovalRestores ==
  [][ \A o \in InFlight :
        (/\ o.op = "remove" /\ pending' = Finish(o) /\ thrown' = "rejected"
         /\ o.pid \in DOMAIN conference'.participants)
          => conference'.participants[o.pid].state # "Disconnected" ]_vars

\* C33: while the conference is Creating, Active or Ending no step replaces it by
\* a conference that joinConference built (one that has no local participant).
C33_JoinNeverReplaces ==
  [][ (HasConf /\ conference.state \in {"Creating", "Active", "Ending"})
      => ~(conference'.id \notin {0, conference.id} /\ conference'.localParticipant = 0) ]_vars

\* C36: at no time are two remote start-recording requests in flight, and no step
\* emits recording:started on a conference that is already recording.
C36_OneStartRequest ==
  [][ /\ CopiesIn(Op("startRec", 0), pending') <= 1
      /\ (emitted' = <<"recording:started">>) => ~isRecording ]_vars

\* the number of times cb occurs in list
Occurrences(list, cb) == Cardinality({i \in 1..Len(list) : list[i] = cb})

\* C40: an event is delivered exactly once to every listener that is still
\* subscribed when the delivery ends, also when a listener unsubscribed during the
\* delivery (a listener that does not unsubscribe itself stays subscribed).
C40_RemainingListenersReceive ==
  [][ (evLast' = "emit")
      => \A cb \in Callbacks :
           ~Unsubscribes(cb)
             => Occurrences(delivered', cb) = Occurrences(conferenceEventListeners', cb) ]_vars

\* C31: the clearing timeout that an endConference scheduled clears only the
\* conference that ended: when it fires, the conference held (if any) is the one
\* whose end scheduled it, not one created or joined since.
C31_GraceClearsOnlyEnded ==
  [][ (clearTimeouts' < clearTimeouts /\ graceFor # <<>>)
      => conference.id \in {0, Head(graceFor)} ]_vars

\* C35: once the composable is unmounted no audio-level polling timer is live,
\* whatever call was in flight when it was unmounted.
C35_NoPollingAfterUnmount ==
  unmounted => intervals = {}

\* C34: a conference that is Ending is eventually Ended or Failed, given that every
\* remote request settles (resolved or rejected) and every timeout fires.
C34_EndingEventuallyTerminal ==
  (HasConf /\ conference.state = "Ending") ~> (state \in {"Ended", "Failed"})

\* C39: a promise of abortableSleep, once settled, keeps its state and value,
\* whatever aborts or timers come later; while it is pending its timer is armed;
\* it is born rejected exactly when its signal is already aborted; it becomes
\* resolved only by its timer, once the duration has passed and before any abort
\* of its signal; the abort of its signal rejects it in that very step; and a
\* rejected promise holds an AbortError and no timer that can still fire.
C39_SleepSettlesOnce ==
  [][ \A i \in DOMAIN sleeps' :
        LET q == sleeps'[i] IN
        /\ (q.status = "pending") => q.timer = "armed"
        /\ (q.status = "resolved") => (q.timer = "fired" /\ q.reason = NoError)
        /\ (q.status = "rejected")
             => (isAbortError(q.reason) /\ q.signal \in abortedSignals'
                 /\ q.timer \in {"none", "cleared"})
        /\ (i \notin DOMAIN sleeps)
             => (q.status = "rejected") = (q.signal # 0 /\ q.signal \in abortedSignals)
        /\ (i \in DOMAIN sleeps)
             => LET p == sleeps[i] IN
                /\ (p.status # "pending") => (q.status = p.status /\ q.reason = p.reason)
                /\ (p.status = "pending" /\ q.status = "resolved")
                     => (sleepLast'.call = "timeout" /\ now >= p.due
                         /\ p.signal \notin abortedSignals)
                /\ (p.status = "pending" /\ p.signal \in abortedSignals' \ abortedSignals)
                     => q.status = "rejected" ]_vars

\* one sleep resolved before its signal was aborted and is still resolved, and
\* another sleep on the same signal was rejected by that abort, its timer cleared
C39_Witness ==
  \E i, j \in DOMAIN sleeps :
    /\ sleeps[i].status = "resolved" /\ sleeps[i].signal \in abortedSignals
    /\ sleeps[j].status = "rejected" /\ sleeps[j].timer = "cleared"
    /\ sleeps[j].signal = sleeps[i].signal
    /\ sleepLast.call = "abort"
====
